---- MODULE Spec2Model ----
(***************************************************************************)
(* PayTrack2: the bill ledger (BillContext.tsx), its two backing stores,   *)
(* the session handling and the local-notification scheduling              *)
(* (NotificationService.ts), with the recurrence helpers of billUtils.     *)
(*                                                                         *)
(* A Date is the number of seconds since 1970-01-01T00:00 in the device's  *)
(* time zone, which is taken to have no daylight-saving shifts.            *)
(***************************************************************************)
EXTENDS Integers, Sequences, FiniteSets, TLC

\* ------------------------------------------------------------------------
\* Bounds of the model
\* ------------------------------------------------------------------------
\* in-memory bill list is never grown beyond this length by addBill
MaxBills == 2
\* rows the bills table ever hands out an id for
MaxRemoteIds == 3
\* distinct readings of the millisecond clock (Date.now())
MaxClock == 2
\* user-initiated operations (calls and sign-ins) in one behaviour
MaxCalls == 2
\* calls of the context's async functions that may be in flight together
MaxOps == 2
\* runs of NotificationService.scheduleAllBills that may overlap
MaxJobs == 2

\* ------------------------------------------------------------------------
\* Calendar arithmetic (date-fns addDays/addWeeks/addMonths/addYears)
\* ------------------------------------------------------------------------
SecPerDay == 86400

DaysFromCivil(y, m, d) ==
  LET yy  == IF m <= 2 THEN y - 1 ELSE y
      era == yy \div 400
      yoe == yy - era * 400
      mp  == IF m > 2 THEN m - 3 ELSE m + 9
      doy == (153 * mp + 2) \div 5 + d - 1
      doe == yoe * 365 + yoe \div 4 - yoe \div 100 + doy
  IN  era * 146097 + doe - 719468

CivilFromDays(z0) ==
  LET z   == z0 + 719468
      era == z \div 146097
      doe == z - era * 146097
      yoe == (doe - doe \div 1460 + doe \div 36524 - doe \div 146096) \div 365
      doy == doe - (365 * yoe + yoe \div 4 - yoe \div 100)
      mp  == (5 * doy + 2) \div 153
      d   == doy - (153 * mp + 2) \div 5 + 1
      m   == IF mp < 10 THEN mp + 3 ELSE mp - 9
      y   == yoe + era * 400 + (IF m <= 2 THEN 1 ELSE 0)
  IN  [y |-> y, m |-> m, d |-> d]

IsLeap(y) == (y % 4 = 0 /\ y % 100 # 0) \/ y % 400 = 0

DaysInMonth(y, m) ==
  IF m = 2 THEN (IF IsLeap(y) THEN 29 ELSE 28)
  ELSE IF m \in {4, 6, 9, 11} THEN 30 ELSE 31

\* a Date from calendar day and seconds into the day
MkDate(y, m, d, secs) == DaysFromCivil(y, m, d) * SecPerDay + secs

DayOf(date) == date \div SecPerDay
TimeOfDay(date) == date % SecPerDay

addDays(date, n) == date + n * SecPerDay

addWeeks(date, n) == addDays(date, 7 * n)

\* date-fns addMonths: same day of month in the target month, clamped to the
\* target month's last day; the time of day is kept.
addMonths(date, n) ==
  LET c   == CivilFromDays(DayOf(date))
      idx == c.y * 12 + (c.m - 1) + n
      ty  == idx \div 12
      tm  == (idx % 12) + 1
      dim == DaysInMonth(ty, tm)
      td  == IF c.d >= dim THEN dim ELSE c.d
  IN  MkDate(ty, tm, td, TimeOfDay(date))

addYears(date, n) == addMonths(date, 12 * n)

\* ------------------------------------------------------------------------
\* billUtils.getNextDueDate
\* ------------------------------------------------------------------------
Frequencies ==
  {"one-time", "daily", "weekly", "bi-weekly", "every-3-weeks",
   "every-4-weeks", "every-5-weeks", "every-6-weeks", "monthly",
   "every-3-months", "every-4-months", "every-5-months", "every-6-months",
   "annually"}

\* a switch whose 'daily' case would return the date as it is
getNextDueDateDailyStuck(currentDate, frequency) ==
  CASE frequency = "one-time"       -> currentDate
    [] frequency = "daily"          -> currentDate
    [] frequency = "weekly"         -> addWeeks(currentDate, 1)
    [] frequency = "bi-weekly"      -> addWeeks(currentDate, 2)
    [] frequency = "every-3-weeks"  -> addWeeks(currentDate, 3)
    [] frequency = "every-4-weeks"  -> addWeeks(currentDate, 4)
    [] frequency = "every-5-weeks"  -> addWeeks(currentDate, 5)
    [] frequency = "every-6-weeks"  -> addWeeks(currentDate, 6)
    [] frequency = "monthly"        -> addMonths(currentDate, 1)
    [] frequency = "every-3-months" -> addMonths(currentDate, 3)
    [] frequency = "every-4-months" -> addMonths(currentDate, 4)
    [] frequency = "every-5-months" -> addMonths(currentDate, 5)
    [] frequency = "every-6-months" -> addMonths(currentDate, 6)
    [] frequency = "annually"       -> addYears(currentDate, 1)
    [] OTHER                        -> currentDate

\* a switch whose 'one-time' case would fall through to 'daily'
getNextDueDateFallingThrough(currentDate, frequency) ==
  CASE frequency = "one-time"       -> addDays(currentDate, 1)
    [] frequency = "daily"          -> addDays(currentDate, 1)
    [] frequency = "weekly"         -> addWeeks(currentDate, 1)
    [] frequency = "bi-weekly"      -> addWeeks(currentDate, 2)
    [] frequency = "every-3-weeks"  -> addWeeks(currentDate, 3)
    [] frequency = "every-4-weeks"  -> addWeeks(currentDate, 4)
    [] frequency = "every-5-weeks"  -> addWeeks(currentDate, 5)
    [] frequency = "every-6-weeks"  -> addWeeks(currentDate, 6)
    [] frequency = "monthly"        -> addMonths(currentDate, 1)
    [] frequency = "every-3-months" -> addMonths(currentDate, 3)
    [] frequency = "every-4-months" -> addMonths(currentDate, 4)
    [] frequency = "every-5-months" -> addMonths(currentDate, 5)
    [] frequency = "every-6-months" -> addMonths(currentDate, 6)
    [] frequency = "annually"       -> addYears(currentDate, 1)
    [] OTHER                        -> currentDate

getNextDueDate(currentDate, frequency) ==
  CASE frequency = "one-time"       -> currentDate
    [] frequency = "daily"          -> addDays(currentDate, 1)
    [] frequency = "weekly"         -> addWeeks(currentDate, 1)
    [] frequency = "bi-weekly"      -> addWeeks(currentDate, 2)
    [] frequency = "every-3-weeks"  -> addWeeks(currentDate, 3)
    [] frequency = "every-4-weeks"  -> addWeeks(currentDate, 4)
    [] frequency = "every-5-weeks"  -> addWeeks(currentDate, 5)
    [] frequency = "every-6-weeks"  -> addWeeks(currentDate, 6)
    [] frequency = "monthly"        -> addMonths(currentDate, 1)
    [] frequency = "every-3-months" -> addMonths(currentDate, 3)
    [] frequency = "every-4-months" -> addMonths(currentDate, 4)
    [] frequency = "every-5-months" -> addMonths(currentDate, 5)
    [] frequency = "every-6-months" -> addMonths(currentDate, 6)
    [] frequency = "annually"       -> addYears(currentDate, 1)
    [] OTHER                        -> currentDate

\* ------------------------------------------------------------------------
\* billUtils.filterBillsByDateRange
\* ------------------------------------------------------------------------
Views == {"week", "14days", "month", "year", "all"}

\* date-fns isBefore, and isToday when the clock reads t
isBefore(date, dateToCompare) == date < dateToCompare
isToday(date, t) == DayOf(date) = DayOf(t)

\* the endDate of a view when the clock reads t
endDateOf(viewName, t) ==
  CASE viewName = "week"   -> addDays(t, 7)
    [] viewName = "14days" -> addDays(t, 14)
    [] viewName = "month"  -> addMonths(t, 1)
    [] viewName = "year"   -> addYears(t, 1)

\* a filter that would keep only what is due from now on
filterBillsByDateRangeFromNow(bs, viewName, t) ==
  IF viewName \notin {"week", "14days", "month", "year"} THEN bs
  ELSE SelectSeq(bs, LAMBDA bill :
                       /\ bill.nextDueDate >= t
                       /\ isBefore(bill.nextDueDate, endDateOf(viewName, t)))

\* filterBillsByDateRange(bills, view) when the clock reads t
filterBillsByDateRange(bs, viewName, t) ==
  IF viewName \notin {"week", "14days", "month", "year"} THEN bs
  ELSE SelectSeq(bs, LAMBDA bill :
                       \/ isBefore(bill.nextDueDate, endDateOf(viewName, t))
                       \/ isToday(bill.nextDueDate, t))


\* ------------------------------------------------------------------------
\* Values
\* ------------------------------------------------------------------------
NoUser == "none"
UserId == "u1"

\* A bill id is the sequence of the character codes of its string.
RECURSIVE Digits(_)
Digits(n) == IF n < 10 THEN << 48 + n >> ELSE Digits(n \div 10) \o << 48 + (n % 10) >>
\* an id handed out by the bills table: "r" followed by a number
RemoteIdOf(n) == << 114 >> \o Digits(n)
\* Date.now().toString()
nowToString(ms) == Digits(ms)
NoId == << >>
Undefined == "undefined"
\* monthlyIncome left out of a settings object
NoIncome == 0 - 1

\* useState initial value and the object both sign-out paths install
DefaultSettings ==
  [currency |-> "USD", displayCurrency |-> Undefined,
   monthlyIncome |-> NoIncome, syncEnabled |-> FALSE]

\* a value that may be absent (null / undefined / missing key) is a sequence
\* of length 0 or 1
Absent == << >>
Some(v) == << v >>
IsPresent(o) == Len(o) = 1
Get(o) == o[1]

\* the wall clock when the app starts: 2025-01-29 15:30
Start == MkDate(2025, 1, 29, 55800)

DueA == MkDate(2025, 1, 31, 32400)
DueB == MkDate(2025, 3, 15, 0)
DueC == MkDate(2025, 2, 10, 0)

\* Date.prototype.toISOString and new Date(iso): calendar fields and back
toISOString(date) ==
  LET c == CivilFromDays(DayOf(date))
  IN  << c.y, c.m, c.d, TimeOfDay(date) >>

newDate(iso) == MkDate(iso[1], iso[2], iso[3], iso[4])

\* JSON.stringify of the bill list and JSON.parse with the nextDueDate reviver
stringifyBills(bs) ==
  [i \in 1..Len(bs) |-> [bs[i] EXCEPT !.nextDueDate = toISOString(@)]]

parseBills(blob) ==
  [i \in 1..Len(blob) |-> [blob[i] EXCEPT !.nextDueDate = newDate(@)]]

\* a row of the bills table for a Bill, and the Bill mapped from a row
toRow(bill) == [bill EXCEPT !.nextDueDate = toISOString(@)]
fromRow(row) == [row EXCEPT !.nextDueDate = newDate(@)]

\* { ...bill, ...updatedBill }
Merge(obj, partial) ==
  [k \in DOMAIN obj |-> IF k \in DOMAIN partial THEN partial[k] ELSE obj[k]]

\* the column values updateBill sends: dates as ISO strings
toUpdateData(partial) ==
  [k \in DOMAIN partial |->
     IF k = "nextDueDate" THEN toISOString(partial[k]) ELSE partial[k]]

Range(s) == {s[i] : i \in 1..Len(s)}

\* the orders in which a select ... order by next_due_date may return rows
OrderedByDue(rows) ==
  {s \in [1..Cardinality(rows) -> rows] :
     /\ \A i, j \in 1..Cardinality(rows) : i # j => s[i] # s[j]
     /\ \A i, j \in 1..Cardinality(rows) :
          i < j => newDate(s[i].nextDueDate) <= newDate(s[j].nextDueDate)}


\* ------------------------------------------------------------------------
\* State
\* ------------------------------------------------------------------------
VARIABLES
  isNative,        \* Capacitor.isNativePlatform(), fixed per installation
  clock,           \* the last reading of Date.now(), in clock ticks
  session,         \* the session held by the auth client: NoUser or UserId
  remoteBills,     \* rows of the bills table owned by UserId
  remoteSettings,  \* the user_settings row of UserId, or Absent
  nextRemoteId,    \* number of the next id the bills table hands out
  localStorage,    \* the 'bills' and 'settings' blobs, each possibly absent
  bills,           \* React state of BillProvider
  settings,
  user,
  loading,
  isInitialized,
  notificationsEnabled,
  initialSessionDue, \* the INITIAL_SESSION event is still to be delivered
  permCheckDue,    \* initializeNotifications has still to run (native)
  init,            \* position of initializeAuth / loadUserData
  ops,             \* calls of the context's async functions in flight
  calls,           \* user-initiated operations so far
  permission,      \* the OS notification permission (changed by a request only)
  timer,           \* the 500 ms timer of the bills effect, with its bills
  pending,         \* LocalNotifications: the pending notifications
  jobs,            \* runs of NotificationService.scheduleAllBills
  now,             \* the device's wall clock: what new Date() returns
  advanced,        \* the date a caller of getNextDueDate holds
  view,            \* React state of Dashboard (when it is mounted)
  filteredBills,
  atSignIn         \* history: both stores and the bills in memory as the last
                   \* sign-in found them

vars == << isNative, clock, session, remoteBills, remoteSettings,
           nextRemoteId, localStorage, bills, settings, user, loading,
           isInitialized, notificationsEnabled, initialSessionDue,
           permCheckDue, init, ops, calls, permission, timer, pending, jobs,
           now, advanced, view, filteredBills, atSignIn >>

remoteVars == << session, remoteBills, remoteSettings, nextRemoteId >>

Slots == 1..MaxOps
JobSlots == 1..MaxJobs

\* a user-initiated operation; the user acts after the auth client has
\* delivered its initial event
Count == calls < MaxCalls /\ ~initialSessionDue /\ calls' = calls + 1

NoArg == [none |-> TRUE]

IdleOp ==
  [kind |-> "idle", pc |-> "idle", id |-> NoId, arg |-> NoArg,
   bills |-> << >>, user |-> NoUser, settings |-> DefaultSettings,
   enabled |-> FALSE, session |-> NoUser]

\* a call captures the bills, user, settings and notificationsEnabled of the
\* render it was made in; session (history) is what the auth client held when
\* the call was made
NewOp(kind, pc, id, arg) ==
  [kind |-> kind, pc |-> pc, id |-> id, arg |-> arg,
   bills |-> bills, user |-> user, settings |-> settings,
   enabled |-> notificationsEnabled, session |-> session]

\* a call that has settled: what its caller saw
Settled(kind, pc, id) ==
  [kind |-> kind, pc |-> pc, id |-> id, arg |-> NoArg,
   bills |-> << >>, user |-> NoUser, settings |-> DefaultSettings,
   enabled |-> FALSE, session |-> NoUser]

Free(i) == ops[i].pc \in {"idle", "resolved", "rejected"}
LowestFree(i) == Free(i) /\ \A j \in Slots : Free(j) => i <= j

\* raced (history): another run was under way at some time during this one;
\* seen (history): the ids the first getPending of a run on its own returned
IdleJob ==
  [pc |-> "idle", bills |-> << >>, idx |-> 0, snap |-> {}, owner |-> 0, now |-> 0,
   raced |-> FALSE, seen |-> {}]

\* an effect that would not look at notificationsEnabled
billsEffectWithoutPermission(setBillsCalled) ==
  timer' =
    IF \/ setBillsCalled
       \/ notificationsEnabled' # notificationsEnabled
       \/ isInitialized' # isInitialized
    THEN IF isNative /\ Len(bills') > 0 /\ isInitialized'
         THEN Some(bills') ELSE Absent
    ELSE timer

\* The effect on [bills, isNative, notificationsEnabled, isInitialized]: when
\* a dependency changes, the previous run's timer is cleared and, under the
\* effect's condition, a new one is set with the bills of the new render.
billsEffect(setBillsCalled) ==
  timer' =
    IF \/ setBillsCalled
       \/ notificationsEnabled' # notificationsEnabled
       \/ isInitialized' # isInitialized
    THEN IF isNative /\ notificationsEnabled' /\ Len(bills') > 0 /\ isInitialized'
         THEN Some(bills') ELSE Absent
    ELSE timer

\* a step of the ledger: the notification side only sees the effect
StoreStep(setBillsCalled) ==
  /\ UNCHANGED << notificationsEnabled, permCheckDue, permission, pending, jobs >>
  /\ billsEffect(setBillsCalled)

EmptyStorage == [bills |-> Absent, settings |-> Absent]

\* JSON.stringify / JSON.parse of a settings object: undefined members are
\* dropped and read back as undefined
stringifySettings(st) ==
  [k \in {"currency", "syncEnabled"}
          \cup (IF st.displayCurrency = Undefined THEN {} ELSE {"displayCurrency"})
          \cup (IF st.monthlyIncome = NoIncome THEN {} ELSE {"monthlyIncome"})
     |-> st[k]]

parseSettings(blob) ==
  [currency |-> blob.currency,
   displayCurrency |->
     IF "displayCurrency" \in DOMAIN blob THEN blob.displayCurrency ELSE Undefined,
   monthlyIncome |->
     IF "monthlyIncome" \in DOMAIN blob THEN blob.monthlyIncome ELSE NoIncome,
   syncEnabled |-> blob.syncEnabled]

\* outcomes of the two localStorage.setItem calls of saveToLocalStorage
LocalWriteOutcomes == {"ok", "throwBills", "throwSettings"}

\* saveToLocalStorage(billsData, settingsData) in a render whose user is u
saveToLocalStorage(billsData, settingsData, u, outcome) ==
  IF u # NoUser THEN localStorage
  ELSE IF outcome = "throwBills" THEN localStorage
  ELSE IF outcome = "throwSettings"
       THEN [localStorage EXCEPT !.bills = Some(stringifyBills(billsData))]
  ELSE [bills |-> Some(stringifyBills(billsData)),
        settings |-> Some(stringifySettings(settingsData))]

SaveSettles(u, outcome) ==
  IF u = NoUser /\ outcome # "ok" THEN "rejected" ELSE "resolved"

\* pc: where initializeAuth stands; data: the answer of the select it awaits;
\* how: the branch by which it finished
InitAtStart == [pc |-> "getSession", data |-> Absent, how |-> ""]
InitDone(how) == [pc |-> "done", data |-> Absent, how |-> how]
InitAt(pc, data) == [pc |-> pc, data |-> data, how |-> ""]

ReactInit ==
  /\ bills = << >>
  /\ settings = DefaultSettings
  /\ user = NoUser
  /\ loading = TRUE
  /\ isInitialized = FALSE
  /\ notificationsEnabled = FALSE
  /\ initialSessionDue = TRUE
  /\ permCheckDue = isNative
  /\ init = InitAtStart
  /\ ops = [i \in Slots |-> IdleOp]
  /\ timer = Absent
  /\ jobs = [j \in JobSlots |-> IdleJob]
  /\ advanced = 0
  /\ view = "all"
  /\ filteredBills = << >>

NewBillInputs ==
  {[name |-> "rent", frequency |-> f, nextDueDate |-> DueA,
    notificationTime |-> << 9, 0 >>, autoMarkPaid |-> FALSE,
    notifyUntilPaid |-> TRUE, isPaid |-> FALSE] :
     f \in {"one-time", "monthly"}}

WithId(b, id) ==
  [id |-> id, name |-> b.name, frequency |-> b.frequency,
   nextDueDate |-> b.nextDueDate, notificationTime |-> b.notificationTime,
   autoMarkPaid |-> b.autoMarkPaid, notifyUntilPaid |-> b.notifyUntilPaid,
   isPaid |-> b.isPaid]

\* what the account may already hold in the database when the app starts:
\* nothing, or a settings row and two bills (one-time due DueA, monthly due
\* DueB)
SeedAccounts ==
  { [bills |-> {}, settings |-> Absent],
    [bills |-> { toRow(WithId([b EXCEPT !.nextDueDate =
                                      IF b.frequency = "one-time" THEN DueA ELSE DueB],
                                    RemoteIdOf(IF b.frequency = "one-time" THEN 1 ELSE 2))) :
                   b \in NewBillInputs },
     settings |-> Some([base_currency |-> "EUR", display_currency |-> "EUR",
                        monthly_income |-> 100])] }

NoSignIn ==
  [happened |-> FALSE, local |-> EmptyStorage, remote |-> {}, bills |-> << >>]

\* a start of the app with nothing stored locally yet, with or without a
\* session kept by the auth client
StoreInit ==
  /\ clock = 1
  /\ session \in {NoUser, UserId}
  /\ \E acc \in SeedAccounts :
       /\ remoteBills = acc.bills
       /\ remoteSettings = acc.settings
  /\ nextRemoteId = Cardinality(remoteBills) + 1
  /\ localStorage = EmptyStorage
  /\ calls = 0
  /\ pending = {}
  /\ atSignIn = NoSignIn
  /\ ReactInit

\* the web runtime
Init ==
  /\ isNative = FALSE
  /\ permission = "denied"
  /\ now = Start
  /\ StoreInit


\* ------------------------------------------------------------------------
\* Start-up: initializeAuth, loadLocalData, loadUserData
\* ------------------------------------------------------------------------

\* loadLocalData: what it leaves in bills and settings
localBillsOr(cur) ==
  IF IsPresent(localStorage.bills) THEN parseBills(Get(localStorage.bills)) ELSE cur

localSettingsOr(cur) ==
  IF IsPresent(localStorage.settings)
  THEN parseSettings(Get(localStorage.settings)) ELSE cur

\* loadUserData: settings object built from the user_settings row
settingsFromRow(row) ==
  [currency |-> IF row.base_currency = "" THEN "USD" ELSE row.base_currency,
   displayCurrency |-> row.display_currency,
   monthlyIncome |-> IF row.monthly_income = 0 \/ row.monthly_income = NoIncome
                     THEN NoIncome ELSE row.monthly_income,
   syncEnabled |-> TRUE]

CloudDefaultSettings ==
  [currency |-> "USD", displayCurrency |-> "USD",
   monthlyIncome |-> NoIncome, syncEnabled |-> TRUE]

CatchSettings ==
  [currency |-> "USD", displayCurrency |-> Undefined,
   monthlyIncome |-> NoIncome, syncEnabled |-> TRUE]

\* supabase.auth.getSession() resolves without error (initializeAuth, try)
initializeAuthSession ==
  /\ init.pc = "getSession"
  /\ user' = session
  /\ IF session # NoUser
     THEN /\ init' = InitAt("settingsSent", Absent)
          /\ UNCHANGED << bills, settings, loading, isInitialized >>
     ELSE /\ bills' = localBillsOr(bills)
          /\ settings' = localSettingsOr(settings)
          /\ loading' = FALSE
          /\ isInitialized' = TRUE
          /\ init' = InitDone("local")
  /\ UNCHANGED << isNative, advanced, view, filteredBills, now, atSignIn, clock, remoteVars, localStorage,
                  initialSessionDue, ops, calls >>
  /\ StoreStep(session = NoUser /\ IsPresent(localStorage.bills))

\* a catch that would load the local data and leave loading as it is
initializeAuthErrorLeavingLoading ==
  /\ init.pc = "getSession"
  /\ bills' = localBillsOr(bills)
  /\ settings' = localSettingsOr(settings)
  /\ init' = InitDone("sessionError")
  /\ UNCHANGED << isNative, advanced, view, filteredBills, now, atSignIn, clock, remoteVars, localStorage, user,
                  initialSessionDue, ops, calls, loading, isInitialized >>
  /\ StoreStep(IsPresent(localStorage.bills))

\* supabase.auth.getSession() returns an error (initializeAuth, catch)
initializeAuthError ==
  /\ init.pc = "getSession"
  /\ bills' = localBillsOr(bills)
  /\ settings' = localSettingsOr(settings)
  /\ loading' = FALSE
  /\ isInitialized' = TRUE
  /\ init' = InitDone("sessionError")
  /\ UNCHANGED << isNative, advanced, view, filteredBills, now, atSignIn, clock, remoteVars, localStorage, user,
                  initialSessionDue, ops, calls >>
  /\ StoreStep(IsPresent(localStorage.bills))

\* the database answers the user_settings select: the row, no row, or an error
\* (data null)
remoteSettingsAnswer ==
  /\ init.pc = "settingsSent"
  /\ \E ans \in {remoteSettings, Absent} : init' = InitAt("settingsAnswered", ans)
  /\ UNCHANGED << isNative, advanced, view, filteredBills, now, atSignIn, clock, remoteVars, localStorage, bills, settings,
                  user, loading, isInitialized, initialSessionDue, ops, calls >>
  /\ StoreStep(FALSE)

\* loadUserData resumes after the settings select
loadUserDataSettings ==
  /\ init.pc = "settingsAnswered"
  /\ settings' = IF IsPresent(init.data) THEN settingsFromRow(Get(init.data))
                 ELSE CloudDefaultSettings
  /\ init' = InitAt("billsSent", Absent)
  /\ UNCHANGED << isNative, advanced, view, filteredBills, now, atSignIn, clock, remoteVars, localStorage, bills, user,
                  loading, isInitialized, initialSessionDue, ops, calls >>
  /\ StoreStep(FALSE)

\* the database answers the bills select, ordered by next_due_date, or with an
\* error (data null)
remoteBillsAnswer ==
  /\ init.pc = "billsSent"
  /\ \E ans \in {Some(o) : o \in OrderedByDue(remoteBills)} \cup {Absent} :
       init' = InitAt("billsAnswered", ans)
  /\ UNCHANGED << isNative, advanced, view, filteredBills, now, atSignIn, clock, remoteVars, localStorage, bills, settings,
                  user, loading, isInitialized, initialSessionDue, ops, calls >>
  /\ StoreStep(FALSE)

\* loadUserData resumes after the bills select and returns to initializeAuth
loadUserDataBills ==
  /\ init.pc = "billsAnswered"
  /\ bills' = IF IsPresent(init.data)
              THEN [i \in 1..Len(Get(init.data)) |-> fromRow(Get(init.data)[i])]
              ELSE << >>
  /\ loading' = FALSE
  /\ isInitialized' = TRUE
  /\ init' = InitDone(IF IsPresent(init.data) THEN "cloud" ELSE "cloudError")
  /\ UNCHANGED << isNative, advanced, view, filteredBills, now, atSignIn, clock, remoteVars, localStorage, settings, user,
                  initialSessionDue, ops, calls >>
  /\ StoreStep(TRUE)

\* one of the two 10 s timers of loadUserData rejects first (catch branch)
loadUserDataTimeout ==
  /\ init.pc \in {"settingsSent", "settingsAnswered", "billsSent", "billsAnswered"}
  /\ settings' = CatchSettings
  /\ bills' = << >>
  /\ loading' = FALSE
  /\ isInitialized' = TRUE
  /\ init' = InitDone("timeout")
  /\ UNCHANGED << isNative, advanced, view, filteredBills, now, atSignIn, clock, remoteVars, localStorage, user,
                  initialSessionDue, ops, calls >>
  /\ StoreStep(TRUE)

\* ------------------------------------------------------------------------
\* Session events
\* ------------------------------------------------------------------------

\* The onAuthStateChange callback is created by an effect with an empty
\* dependency list, so the isInitialized it reads is the one of the first
\* render: false for the life of the subscription.
handlerIsInitialized == FALSE

\* does the callback get past its "not initialized yet" return
handlerAccepts(event) == handlerIsInitialized \/ event = "INITIAL_SESSION"

\* the auth client delivers INITIAL_SESSION once after subscription, behind
\* the getSession call issued before it
onAuthStateChangeInitial ==
  /\ initialSessionDue
  /\ init.pc # "getSession"
  /\ initialSessionDue' = FALSE
  /\ user' = IF handlerAccepts("INITIAL_SESSION") THEN session ELSE user
  /\ UNCHANGED << isNative, advanced, view, filteredBills, now, atSignIn, clock, remoteVars, localStorage, bills, settings,
                  loading, isInitialized, init, ops, calls >>
  /\ StoreStep(FALSE)

\* AuthService.signInWithGoogleWeb: the OAuth redirect comes back to
\* /dashboard, which loads the page with the new session: the provider
\* mounts afresh, the stores persist, calls in flight are abandoned
signInWithGoogleWeb ==
  /\ ~isNative
  /\ session = NoUser
  /\ init.pc = "done"
  /\ Count
  /\ session' = UserId
  /\ bills' = << >>
  /\ settings' = DefaultSettings
  /\ user' = NoUser
  /\ loading' = TRUE
  /\ isInitialized' = FALSE
  /\ initialSessionDue' = TRUE
  /\ init' = InitAtStart
  /\ ops' = [i \in Slots |-> IdleOp]
  /\ atSignIn' = [happened |-> TRUE, local |-> localStorage, remote |-> remoteBills,
                  bills |-> bills]
  /\ UNCHANGED << isNative, advanced, view, filteredBills, now, clock, remoteBills, remoteSettings, nextRemoteId,
                  localStorage, notificationsEnabled, permCheckDue,
                  permission, timer, pending, jobs >>


\* ------------------------------------------------------------------------
\* BillStore mutations: addBill, updateBill, deleteBill, markAsPaid
\* ------------------------------------------------------------------------
Ids(bs) == {bs[i].id : i \in 1..Len(bs)}

\* every id a bill can carry: assigned by the database or by addBill
BillIds == {RemoteIdOf(n) : n \in 1..MaxRemoteIds} \cup {nowToString(t) : t \in 1..MaxClock}

\* bills.map(bill => bill.id === id ? { ...bill, ...updatedBill } : bill)
mapUpdate(bs, id, partial) ==
  [i \in 1..Len(bs) |-> IF bs[i].id = id THEN Merge(bs[i], partial) ELSE bs[i]]

\* bills.filter(bill => bill.id !== id)
filterOut(bs, id) == SelectSeq(bs, LAMBDA b : b.id # id)

PaidPartial == [isPaid |-> TRUE]

\* fields the edit form may be submitted with
UpdateInputs == {[isPaid |-> FALSE], [nextDueDate |-> DueC]}

WriteKinds == {"addBill", "updateBill", "markAsPaid", "deleteBill"}

\* where a call stands once updateBill has returned: markAsPaid goes on to
\* the "bill paid" notification when the runtime is native and notifications
\* were enabled in the render of the call
afterUpdate(kind, enabled) ==
  IF kind = "markAsPaid" /\ isNative /\ enabled THEN "paidNotif" ELSE "resolved"

\* addBill(bill)
addBill(i, b) ==
  /\ LowestFree(i)
  /\ Len(bills) < MaxBills
  /\ Count
  /\ IF user # NoUser
     THEN /\ nextRemoteId <= MaxRemoteIds
          /\ ops' = [ops EXCEPT ![i] = NewOp("addBill", "sent", NoId, b)]
          /\ UNCHANGED << bills, localStorage, clock >>
     ELSE \E out \in LocalWriteOutcomes, ms \in clock..MaxClock :
            LET updatedBills == Append(bills, WithId(b, nowToString(ms)))
            IN  /\ clock' = ms
                /\ bills' = updatedBills
                /\ localStorage' = saveToLocalStorage(updatedBills, settings, user, out)
                /\ ops' = [ops EXCEPT ![i] =
                             Settled("addBill", SaveSettles(user, out), NoId)]
  /\ UNCHANGED << isNative, advanced, view, filteredBills, now, atSignIn, remoteVars, settings, user, loading,
                  isInitialized, initialSessionDue, init >>
  /\ StoreStep(user = NoUser)

\* updateBill(id, updatedBill), also as called by markAsPaid
updateBillFrom(i, kind, id, partial) ==
  /\ LowestFree(i)
  /\ Count
  /\ IF user # NoUser
     THEN /\ ops' = [ops EXCEPT ![i] = NewOp(kind, "sent", id, partial)]
          /\ UNCHANGED << bills, localStorage >>
     ELSE \E out \in LocalWriteOutcomes :
            LET updatedBills == mapUpdate(bills, id, partial)
            IN  /\ bills' = updatedBills
                /\ localStorage' = saveToLocalStorage(updatedBills, settings, user, out)
                /\ ops' = [ops EXCEPT ![i] =
                             Settled(kind,
                                     IF SaveSettles(user, out) = "rejected"
                                     THEN "rejected"
                                     ELSE afterUpdate(kind, notificationsEnabled),
                                     id)]
  /\ UNCHANGED << isNative, advanced, view, filteredBills, now, atSignIn, clock, remoteVars, settings, user, loading,
                  isInitialized, initialSessionDue, init >>
  /\ StoreStep(user = NoUser)

updateBill(i, id, partial) ==
  /\ ~loading
  /\ id \in Ids(bills)
  /\ updateBillFrom(i, "updateBill", id, partial)

\* markAsPaid(id): bills.find, then updateBill(id, { isPaid: true })
markAsPaid(i, id) ==
  /\ ~loading
  /\ id \in Ids(bills)
  /\ updateBillFrom(i, "markAsPaid", id, PaidPartial)

\* markAsPaid(id) when bills.find finds no bill of that id: the call logs
\* and returns
markAsPaidNotFound(i, id) ==
  /\ ~loading
  /\ id \notin Ids(bills)
  /\ LowestFree(i)
  /\ Count
  /\ ops' = [ops EXCEPT ![i] = Settled("markAsPaid", "resolved", id)]
  /\ UNCHANGED << isNative, advanced, view, filteredBills, now, atSignIn, clock, remoteVars, localStorage, bills,
                  settings, user, loading, isInitialized, initialSessionDue, init >>
  /\ StoreStep(FALSE)

\* deleteBill(id)
deleteBill(i, id) ==
  /\ ~loading
  /\ id \in Ids(bills)
  /\ LowestFree(i)
  /\ Count
  /\ IF user # NoUser
     THEN /\ ops' = [ops EXCEPT ![i] = NewOp("deleteBill", "sent", id, NoArg)]
          /\ UNCHANGED << bills, localStorage >>
     ELSE \E out \in LocalWriteOutcomes :
            LET updatedBills == filterOut(bills, id)
            IN  /\ bills' = updatedBills
                /\ localStorage' = saveToLocalStorage(updatedBills, settings, user, out)
                /\ ops' = [ops EXCEPT ![i] =
                             Settled("deleteBill", SaveSettles(user, out), id)]
  /\ UNCHANGED << isNative, advanced, view, filteredBills, now, atSignIn, clock, remoteVars, settings, user, loading,
                  isInitialized, initialSessionDue, init >>
  /\ StoreStep(user = NoUser)

\* the database executes the statement of a call in flight, or refuses it
remoteWrite(i) ==
  /\ ops[i].pc = "sent"
  /\ ops[i].kind \in WriteKinds
  /\ \/ /\ ops[i].kind = "addBill"
        /\ LET row == toRow(WithId(ops[i].arg, RemoteIdOf(nextRemoteId)))
           IN  /\ remoteBills' = remoteBills \cup {row}
               /\ nextRemoteId' = nextRemoteId + 1
               /\ ops' = [ops EXCEPT ![i].pc = "ok", ![i].arg = row]
     \/ /\ ops[i].kind \in {"updateBill", "markAsPaid"}
        /\ remoteBills' =
             {IF r.id = ops[i].id THEN Merge(r, toUpdateData(ops[i].arg)) ELSE r :
                r \in remoteBills}
        /\ ops' = [ops EXCEPT ![i].pc = "ok"]
        /\ UNCHANGED nextRemoteId
     \/ /\ ops[i].kind = "deleteBill"
        /\ remoteBills' = {r \in remoteBills : r.id # ops[i].id}
        /\ ops' = [ops EXCEPT ![i].pc = "ok"]
        /\ UNCHANGED nextRemoteId
     \/ /\ ops' = [ops EXCEPT ![i].pc = "err"]
        /\ UNCHANGED << remoteBills, nextRemoteId >>
  /\ UNCHANGED << isNative, advanced, view, filteredBills, now, atSignIn, clock, session, remoteSettings, localStorage,
                  bills, settings, user, loading, isInitialized,
                  initialSessionDue, init, calls >>
  /\ StoreStep(FALSE)

\* the list a call installs once its statement has succeeded, computed from
\* the bills of the render the call was made in
billsAfter(op) ==
  CASE op.kind = "addBill" -> Append(op.bills, fromRow(op.arg))
    [] op.kind \in {"updateBill", "markAsPaid"} -> mapUpdate(op.bills, op.id, op.arg)
    [] op.kind = "deleteBill" -> filterOut(op.bills, op.id)

\* a resumption that installs the new list whatever the database answered
resumeWriteIgnoringError(i) ==
  /\ ops[i].pc \in {"ok", "err"}
  /\ ops[i].kind \in WriteKinds
  /\ bills' = billsAfter([ops[i] EXCEPT !.arg =
                IF ops[i].kind = "addBill" /\ ops[i].pc = "err"
                THEN toRow(WithId(ops[i].arg, RemoteIdOf(nextRemoteId))) ELSE @])
  /\ ops' = [ops EXCEPT ![i] =
               Settled(ops[i].kind, afterUpdate(ops[i].kind, ops[i].enabled), ops[i].id)]
  /\ UNCHANGED << isNative, advanced, view, filteredBills, now, atSignIn, clock, remoteVars, localStorage, settings, user,
                  loading, isInitialized, initialSessionDue, init, calls >>
  /\ StoreStep(TRUE)

\* the call resumes after its await: setBills on success, throw on error
resumeWrite(i) ==
  /\ ops[i].pc \in {"ok", "err"}
  /\ ops[i].kind \in WriteKinds
  /\ IF ops[i].pc = "ok"
     THEN /\ bills' = billsAfter(ops[i])
          /\ ops' = [ops EXCEPT ![i] =
                       Settled(ops[i].kind,
                               afterUpdate(ops[i].kind, ops[i].enabled), ops[i].id)]
     ELSE /\ ops' = [ops EXCEPT ![i] = Settled(ops[i].kind, "rejected", ops[i].id)]
          /\ UNCHANGED bills
  /\ UNCHANGED << isNative, advanced, view, filteredBills, now, atSignIn, clock, remoteVars, localStorage, settings, user,
                  loading, isInitialized, initialSessionDue, init, calls >>
  /\ StoreStep(ops[i].pc = "ok")

\* ------------------------------------------------------------------------
\* updateSettings and signOut
\* ------------------------------------------------------------------------
SettingsInputs == {[currency |-> "EUR", displayCurrency |-> "EUR"]}

\* updateSettings(newSettings)
updateSettings(i, partial) ==
  /\ LowestFree(i)
  /\ Count
  /\ settings' = Merge(settings, partial)
  /\ IF user # NoUser
     THEN /\ ops' = [ops EXCEPT ![i] = NewOp("updateSettings", "sent", NoId, partial)]
          /\ UNCHANGED localStorage
     ELSE \E out \in LocalWriteOutcomes :
            /\ localStorage' =
                 saveToLocalStorage(bills, Merge(settings, partial), user, out)
            /\ ops' = [ops EXCEPT ![i] =
                         Settled("updateSettings", SaveSettles(user, out), NoId)]
  /\ UNCHANGED << isNative, advanced, view, filteredBills, now, atSignIn, clock, remoteVars, bills, user, loading,
                  isInitialized, initialSessionDue, init >>
  /\ StoreStep(FALSE)

\* the columns updateSettings sends for a partial settings object
settingsUpdateData(row, partial) ==
  [base_currency |->
     IF "currency" \in DOMAIN partial THEN partial.currency ELSE row.base_currency,
   display_currency |->
     IF "displayCurrency" \in DOMAIN partial
     THEN partial.displayCurrency ELSE row.display_currency,
   monthly_income |->
     IF "monthlyIncome" \in DOMAIN partial
     THEN partial.monthlyIncome ELSE row.monthly_income]

\* the database executes the user_settings update (it touches only an
\* existing row), or refuses it
remoteSettingsWrite(i) ==
  /\ ops[i].pc = "sent"
  /\ ops[i].kind = "updateSettings"
  /\ \/ /\ remoteSettings' =
             IF IsPresent(remoteSettings)
             THEN Some(settingsUpdateData(Get(remoteSettings), ops[i].arg))
             ELSE remoteSettings
        /\ ops' = [ops EXCEPT ![i].pc = "ok"]
     \/ /\ ops' = [ops EXCEPT ![i].pc = "err"]
        /\ UNCHANGED remoteSettings
  /\ UNCHANGED << isNative, advanced, view, filteredBills, now, atSignIn, clock, session, remoteBills, nextRemoteId,
                  localStorage, bills, settings, user, loading, isInitialized,
                  initialSessionDue, init, calls >>
  /\ StoreStep(FALSE)

\* updateSettings resumes: an error is logged, the call resolves either way
resumeSettings(i) ==
  /\ ops[i].pc \in {"ok", "err"}
  /\ ops[i].kind = "updateSettings"
  /\ ops' = [ops EXCEPT ![i] = Settled("updateSettings", "resolved", NoId)]
  /\ UNCHANGED << isNative, advanced, view, filteredBills, now, atSignIn, clock, remoteVars, localStorage, bills, settings,
                  user, loading, isInitialized, initialSessionDue, init, calls >>
  /\ StoreStep(FALSE)


\* an idle slot for a run of scheduleAllBills
FreeJob(j) == jobs[j].pc = "idle" /\ \A k \in JobSlots : jobs[k].pc = "idle" => j <= k

\* scheduleAllBills(bs) is entered; owner is the call that awaits it (0: none)
NewJob(bs, owner) ==
  [pc |-> "getPending", bills |-> bs, idx |-> 0, snap |-> {}, owner |-> owner,
   now |-> 0, raced |-> \E k \in JobSlots : jobs[k].pc # "idle", seen |-> {}]

\* the run starts in slot j, next to the runs already under way
StartJob(j, bs, owner) ==
  jobs' = [k \in JobSlots |->
             IF k = j THEN NewJob(bs, owner)
             ELSE IF jobs[k].pc # "idle"
                  THEN [jobs[k] EXCEPT !.raced = TRUE, !.seen = {}]
             ELSE jobs[k]]

\* signOut(): the call is made and awaits supabase.auth.signOut()
signOut(i) ==
  /\ LowestFree(i)
  /\ Count
  /\ user # NoUser
  /\ ops' = [ops EXCEPT ![i] = NewOp("signOut", "authSignOut", NoId, NoArg)]
  /\ UNCHANGED << isNative, advanced, view, filteredBills, now, atSignIn, clock, remoteVars, localStorage, bills, settings,
                  user, loading, isInitialized, initialSessionDue, init >>
  /\ StoreStep(FALSE)

\* the auth client drops the session and delivers SIGNED_OUT to the callback;
\* signOut() then clears the ledger and local storage and, on a native
\* runtime with notifications enabled, enters scheduleAllBills([])
signOutResume(i) ==
  /\ ops[i].pc = "authSignOut"
  /\ session' = NoUser
  /\ user' = IF handlerAccepts("SIGNED_OUT") THEN NoUser ELSE user
  /\ bills' = << >>
  /\ settings' = DefaultSettings
  /\ localStorage' = EmptyStorage
  /\ IF isNative /\ ops[i].enabled
     THEN \E j \in JobSlots :
            /\ FreeJob(j)
            /\ StartJob(j, << >>, i)
            /\ ops' = [ops EXCEPT ![i] = Settled("signOut", "awaitJob", NoId)]
     ELSE /\ ops' = [ops EXCEPT ![i] = Settled("signOut", "resolved", NoId)]
          /\ UNCHANGED jobs
  /\ UNCHANGED << isNative, advanced, view, filteredBills, now, atSignIn, clock, remoteBills, remoteSettings, nextRemoteId,
                  loading, isInitialized, initialSessionDue, init, calls,
                  notificationsEnabled, permCheckDue, permission, pending >>
  /\ billsEffect(TRUE)

\* ------------------------------------------------------------------------
\* NotificationService and the LocalNotifications plugin
\* ------------------------------------------------------------------------
RemindersPerBill == 12
IdModulus == 1000000
SecPerHour == 3600
SecPerMinute == 60
\* the amounts handed to addMinutes, in hundredths of a minute: 0.1 and 0.05
ImmediateLead == 10
PaidLead == 5

RECURSIVE SumCodes(_)
SumCodes(cs) == IF cs = << >> THEN 0 ELSE Head(cs) + SumCodes(Tail(cs))

\* an id that would leave the suffix out
generateNotificationIdWithoutSuffix(billId, suffix) == SumCodes(billId) % IdModulus

\* generateNotificationId(billId, suffix)
generateNotificationId(billId, suffix) == (SumCodes(billId) % IdModulus) + suffix

\* date-fns addHours, and addMinutes with its amount in hundredths of a
\* minute (the amount is not rounded: 0.1 minute is 6 seconds)
addHours(date, n) == date + n * SecPerHour
addMinutes(date, hundredths) == date + (hundredths * SecPerMinute) \div 100
isAfter(date, dateToCompare) == date > dateToCompare
\* isPast(date) when Date.now() reads t
isPast(date, t) == date < t

\* a parse that would drop the minutes
parseNotificationTimeHoursOnly(time, baseDate) ==
  DayOf(baseDate) * SecPerDay + time[1] * SecPerHour

\* parseNotificationTime(timeString, baseDate): setHours(hours, minutes, 0, 0)
\* on a copy of baseDate
parseNotificationTime(time, baseDate) ==
  DayOf(baseDate) * SecPerDay + time[1] * SecPerHour + time[2] * SecPerMinute

\* the main notification of scheduleBillReminder, or the immediate one when
\* its time has passed; t is the function's reading of the clock (now) and
\* t2 the clock when the body is built
mainNotification(bill, t, t2) ==
  LET dueDate == bill.nextDueDate
      notificationDateTime == parseNotificationTime(bill.notificationTime, dueDate)
  IN  IF isAfter(notificationDateTime, t)
      THEN [id |-> generateNotificationId(bill.id, 0), billId |-> bill.id,
            type |-> "main", interval |-> 0, at |-> notificationDateTime,
            body |-> "due"]
      ELSE [id |-> generateNotificationId(bill.id, 0), billId |-> bill.id,
            type |-> "main", interval |-> 0,
            at |-> addMinutes(t, ImmediateLead),
            body |-> IF isPast(dueDate, t2) THEN "OVERDUE" ELSE "due today"]

\* reminders that would be left out once the notification time has passed
recurringNotificationsBeforeTimeOnly(bill, t, t2) ==
  IF /\ bill.notifyUntilPaid /\ ~bill.isPaid
     /\ isAfter(parseNotificationTime(bill.notificationTime, bill.nextDueDate), t)
  THEN {[id |-> generateNotificationId(bill.id, i), billId |-> bill.id,
         type |-> "recurring", interval |-> i, at |-> addHours(t, i * 2),
         body |-> IF isPast(bill.nextDueDate, t2) THEN "OVERDUE" ELSE "due"] :
          i \in 1..RemindersPerBill}
  ELSE {}

\* the 2-hour reminders of scheduleBillReminder
recurringNotifications(bill, t, t2) ==
  IF bill.notifyUntilPaid /\ ~bill.isPaid
  THEN {[id |-> generateNotificationId(bill.id, i), billId |-> bill.id,
         type |-> "recurring", interval |-> i, at |-> addHours(t, i * 2),
         body |-> IF isPast(bill.nextDueDate, t2) THEN "OVERDUE" ELSE "due"] :
          i \in {k \in 1..RemindersPerBill : isAfter(addHours(t, k * 2), t)}}
  ELSE {}

\* the notifications array scheduleBillReminder(bill) builds
planBill(bill, t, t2) ==
  IF bill.isPaid THEN {}
  ELSE {mainNotification(bill, t, t2)} \cup recurringNotifications(bill, t, t2)

\* values Math.floor(Math.random() * 1000000) may take in a behaviour
RandomIds == {generateNotificationId(RemoteIdOf(1), 0), 999999}

\* the notification showBillPaidNotification builds when the clock reads t
paidNotification(id, t) ==
  [id |-> id, billId |-> NoId, type |-> "bill_paid", interval |-> 0,
   at |-> addMinutes(t, PaidLead), body |-> "paid"]

\* a plugin that would keep a pending notification next to a new one of its id
ScheduleAppending(pend, ns) == pend \cup ns

\* LocalNotifications.schedule: a notification replaces a pending one of its id
Schedule(pend, ns) == {n \in pend : \A m \in ns : m.id # n.id} \cup ns

\* LocalNotifications.cancel({ notifications: ids })
Cancel(pend, ids) == {n \in pend : n.id \notin ids}

notifFrame ==
  UNCHANGED << isNative, advanced, view, filteredBills, now, atSignIn, clock, remoteVars, localStorage, bills, settings,
               user, loading, isInitialized, initialSessionDue, init >>

\* initializeNotifications (native, on mount): checkPermissions
initializeNotifications ==
  /\ permCheckDue
  /\ permCheckDue' = FALSE
  /\ notificationsEnabled' = (permission = "granted")
  /\ notifFrame
  /\ UNCHANGED << ops, calls, permission, pending, jobs >>
  /\ billsEffect(FALSE)

\* requestNotificationPermission(): the call awaits requestPermissions
requestNotificationPermission(i) ==
  /\ isNative
  /\ LowestFree(i)
  /\ Count
  /\ ~notificationsEnabled
  /\ ops' = [ops EXCEPT ![i] = NewOp("requestPermission", "prompt", NoId, NoArg)]
  /\ notifFrame
  /\ UNCHANGED << notificationsEnabled, permCheckDue, permission, pending,
                  jobs, timer >>

\* the OS answers (asking the user if it has not asked before); when granted
\* the call enters scheduleAllBills with the bills of its render
requestPermissionResume(i) ==
  /\ ops[i].pc = "prompt"
  /\ \E answer \in (IF permission = "prompt" THEN {"granted", "denied"}
                                             ELSE {permission}) :
       /\ permission' = answer
       /\ notificationsEnabled' = (answer = "granted")
       /\ IF answer = "granted"
          THEN \E j \in JobSlots :
                 /\ FreeJob(j)
                 /\ StartJob(j, ops[i].bills, i)
                 /\ ops' = [ops EXCEPT ![i] =
                              Settled("requestPermission", "awaitJob", NoId)]
          ELSE /\ ops' = [ops EXCEPT ![i] =
                            Settled("requestPermission", "resolved", NoId)]
               /\ UNCHANGED jobs
  /\ notifFrame
  /\ UNCHANGED << calls, permCheckDue, pending >>
  /\ billsEffect(FALSE)

\* the 500 ms timer of the bills effect fires: scheduleAllBills(bills)
timerFires(j) ==
  /\ IsPresent(timer)
  /\ FreeJob(j)
  /\ StartJob(j, Get(timer), 0)
  /\ timer' = Absent
  /\ notifFrame
  /\ UNCHANGED << ops, calls, notificationsEnabled, permCheckDue, permission,
                  pending >>

PendingIds == {n.id : n \in pending}
PendingIdsOf(billId) == {n.id : n \in {m \in pending : m.billId = billId}}

\* a run that would go through the paid bills as well
UnpaidAfterIncludingPaid(job) == (job.idx + 1)..Len(job.bills)

\* indices of the unpaid bills scheduleAllBills has still to go through
UnpaidAfter(job) == {k \in (job.idx + 1)..Len(job.bills) : ~job.bills[k].isPaid}

\* a run that would return once it has cleared the queue
AdvanceOrReturnAfterClear(job) ==
  IF UnpaidAfter(job) = {} \/ job.pc = "cancel" THEN IdleJob
  ELSE [job EXCEPT !.pc = "billGetPending", !.snap = {}, !.now = now,
                   !.idx = CHOOSE k \in UnpaidAfter(job) :
                             \A l \in UnpaidAfter(job) : k <= l]

\* the run goes on to its next unpaid bill, entering scheduleBillReminder
\* (which reads the clock), or returns
Advance(job) ==
  IF UnpaidAfter(job) = {} THEN IdleJob
  ELSE [job EXCEPT !.pc = "billGetPending", !.snap = {}, !.now = now,
                   !.idx = CHOOSE k \in UnpaidAfter(job) :
                             \A l \in UnpaidAfter(job) : k <= l]

\* a step of a run that may be its last: the call awaiting the run resumes
JobStep(j, job) ==
  /\ jobs' = [jobs EXCEPT ![j] = job]
  /\ ops' = IF job.pc = "idle" /\ jobs[j].owner # 0
            THEN [ops EXCEPT ![jobs[j].owner].pc = "resolved"]
            ELSE ops
  /\ notifFrame
  /\ UNCHANGED << calls, notificationsEnabled, permCheckDue, permission, timer >>

\* scheduleAllBills: getPending
jobGetPending(j) ==
  /\ jobs[j].pc = "getPending"
  /\ IF PendingIds # {}
     THEN JobStep(j, [jobs[j] EXCEPT !.pc = "cancel", !.snap = PendingIds,
                                     !.seen = IF jobs[j].raced THEN {}
                                                                ELSE PendingIds])
     ELSE JobStep(j, Advance(jobs[j]))
  /\ UNCHANGED pending

\* scheduleAllBills: cancel of everything getPending returned
jobCancel(j) ==
  /\ jobs[j].pc = "cancel"
  /\ pending' = Cancel(pending, jobs[j].snap)
  /\ JobStep(j, Advance(jobs[j]))

\* a cancelBillReminder that would go on to the schedule call whatever
\* getPending returned
billGetPendingSkippingCancel(j) ==
  /\ jobs[j].pc = "billGetPending"
  /\ JobStep(j, [jobs[j] EXCEPT !.pc = "billSchedule"])
  /\ UNCHANGED pending

\* cancelBillReminder: getPending, filtered by extra.billId
billGetPending(j) ==
  /\ jobs[j].pc = "billGetPending"
  /\ LET mine == PendingIdsOf(jobs[j].bills[jobs[j].idx].id)
     IN  IF mine # {}
         THEN JobStep(j, [jobs[j] EXCEPT !.pc = "billCancel", !.snap = mine])
         ELSE JobStep(j, [jobs[j] EXCEPT !.pc = "billSchedule"])
  /\ UNCHANGED pending

\* cancelBillReminder: cancel
billCancel(j) ==
  /\ jobs[j].pc = "billCancel"
  /\ pending' = Cancel(pending, jobs[j].snap)
  /\ JobStep(j, [jobs[j] EXCEPT !.pc = "billSchedule", !.snap = {}])

\* scheduleBillReminder: schedule of the bill's notifications
billSchedule(j) ==
  /\ jobs[j].pc = "billSchedule"
  /\ pending' = Schedule(pending,
                         planBill(jobs[j].bills[jobs[j].idx], jobs[j].now, now))
  /\ JobStep(j, Advance(jobs[j]))

\* markAsPaid goes on: showBillPaidNotification
showBillPaidNotification(i) ==
  /\ ops[i].pc = "paidNotif"
  /\ \E id \in RandomIds : pending' = Schedule(pending, {paidNotification(id, now)})
  /\ ops' = [ops EXCEPT ![i].pc = "resolved"]
  /\ notifFrame
  /\ UNCHANGED << calls, notificationsEnabled, permCheckDue, permission,
                  timer, jobs >>

\* scheduleAllBills: getPending throws; the catch logs, the cancel is skipped
jobGetPendingFails(j) ==
  /\ jobs[j].pc = "getPending"
  /\ JobStep(j, Advance(jobs[j]))
  /\ UNCHANGED pending

\* scheduleAllBills: cancel throws; the catch logs
jobCancelFails(j) ==
  /\ jobs[j].pc = "cancel"
  /\ JobStep(j, Advance(jobs[j]))
  /\ UNCHANGED pending

\* cancelBillReminder: getPending throws; the catch logs and
\* scheduleBillReminder goes on
billGetPendingFails(j) ==
  /\ jobs[j].pc = "billGetPending"
  /\ JobStep(j, [jobs[j] EXCEPT !.pc = "billSchedule"])
  /\ UNCHANGED pending

\* cancelBillReminder: cancel throws; the catch logs
billCancelFails(j) ==
  /\ jobs[j].pc = "billCancel"
  /\ JobStep(j, [jobs[j] EXCEPT !.pc = "billSchedule", !.snap = {}])
  /\ UNCHANGED pending

\* scheduleBillReminder: schedule throws; the catch logs
billScheduleFails(j) ==
  /\ jobs[j].pc = "billSchedule"
  /\ JobStep(j, Advance(jobs[j]))
  /\ UNCHANGED pending

\* a showBillPaidNotification that would let the error of schedule through
showBillPaidNotificationThrows(i) ==
  /\ ops[i].pc = "paidNotif"
  /\ ops' = [ops EXCEPT ![i].pc = "rejected"]
  /\ notifFrame
  /\ UNCHANGED << calls, notificationsEnabled, permCheckDue, permission,
                  timer, jobs, pending >>

\* showBillPaidNotification: schedule throws; the catch logs and markAsPaid
\* returns
showBillPaidNotificationFails(i) ==
  /\ ops[i].pc = "paidNotif"
  /\ ops' = [ops EXCEPT ![i].pc = "resolved"]
  /\ notifFrame
  /\ UNCHANGED << calls, notificationsEnabled, permCheckDue, permission,
                  timer, jobs, pending >>

\* the clock reaches the time of a pending "bill paid" notification: the OS
\* delivers it, and whatever else is due by then
paidNotificationFires ==
  /\ \E n \in pending :
       /\ n.type = "bill_paid"
       /\ now' = IF n.at > now THEN n.at ELSE now
       /\ pending' = {m \in pending : m.at > now'}
  /\ UNCHANGED << isNative, advanced, view, filteredBills, atSignIn, clock, remoteVars, localStorage, bills,
                  settings, user, loading, isInitialized, initialSessionDue, init >>
  /\ UNCHANGED << ops, calls, notificationsEnabled, permCheckDue, permission,
                  timer, jobs >>

\* what identifies a pending notification: its id and the extra it carries
Key(n) == [id |-> n.id, billId |-> n.billId, type |-> n.type, interval |-> n.interval]

\* the pending notifications scheduleBillReminder has built
Reminders(pend) == {n \in pend : n.type # "bill_paid"}

\* what a run of scheduleAllBills(bs) on its own leaves pending when the clock
\* reads t: everything pending is cancelled, then the bills are scheduled in
\* the order of the list
RECURSIVE planAll(_, _)
planAll(bs, t) ==
  IF bs = << >> THEN {}
  ELSE LET before == planAll(SubSeq(bs, 1, Len(bs) - 1), t)
           last == bs[Len(bs)]
       IN  Schedule(Cancel(before, {n.id : n \in {m \in before : m.billId = last.id}}),
                    planBill(last, t, t))

\* ------------------------------------------------------------------------
\* The program
\* ------------------------------------------------------------------------
Next ==
  \/ initializeAuthSession
  \/ initializeAuthError
  \/ remoteSettingsAnswer
  \/ loadUserDataSettings
  \/ remoteBillsAnswer
  \/ loadUserDataBills
  \/ loadUserDataTimeout
  \/ onAuthStateChangeInitial
  \/ signInWithGoogleWeb
  \/ \E i \in Slots, b \in NewBillInputs : addBill(i, b)
  \/ \E i \in Slots, id \in BillIds, p \in UpdateInputs : updateBill(i, id, p)
  \/ \E i \in Slots, id \in BillIds : markAsPaid(i, id)
  \/ \E i \in Slots, id \in BillIds : markAsPaidNotFound(i, id)
  \/ \E i \in Slots, id \in BillIds : deleteBill(i, id)
  \/ \E i \in Slots : remoteWrite(i)
  \/ \E i \in Slots : resumeWrite(i)
  \/ \E i \in Slots, p \in SettingsInputs : updateSettings(i, p)
  \/ \E i \in Slots : remoteSettingsWrite(i)
  \/ \E i \in Slots : resumeSettings(i)
  \/ \E i \in Slots : signOut(i)
  \/ \E i \in Slots : signOutResume(i)

Spec == Init /\ [][Next]_vars

\* the signed-in ledger on its own: a start with a session, then the load
\* and the bill mutations
InitSignedIn ==
  /\ Init
  /\ session = UserId

NextSignedIn ==
  \/ initializeAuthSession
  \/ remoteSettingsAnswer
  \/ loadUserDataSettings
  \/ remoteBillsAnswer
  \/ loadUserDataBills
  \/ onAuthStateChangeInitial
  \/ \E i \in Slots, b \in NewBillInputs : addBill(i, b)
  \/ \E i \in Slots, id \in BillIds, p \in UpdateInputs : updateBill(i, id, p)
  \/ \E i \in Slots, id \in BillIds : markAsPaid(i, id)
  \/ \E i \in Slots, id \in BillIds : deleteBill(i, id)
  \/ \E i \in Slots : remoteWrite(i)
  \/ \E i \in Slots : resumeWrite(i)

SpecSignedIn == InitSignedIn /\ [][NextSignedIn]_vars

\* a native runtime (Capacitor), with the permission granted earlier or
\* never asked for
InitNative ==
  /\ isNative = TRUE
  /\ permission \in {"granted", "prompt"}
  /\ now = Start
  /\ StoreInit

NextNative ==
  \/ initializeAuthSession
  \/ initializeAuthError
  \/ remoteSettingsAnswer
  \/ loadUserDataSettings
  \/ remoteBillsAnswer
  \/ loadUserDataBills
  \/ loadUserDataTimeout
  \/ onAuthStateChangeInitial
  \/ \E i \in Slots, id \in BillIds : markAsPaid(i, id)
  \/ \E i \in Slots, id \in BillIds : deleteBill(i, id)
  \/ \E i \in Slots : remoteWrite(i)
  \/ \E i \in Slots : resumeWrite(i)
  \/ \E i \in Slots : signOut(i)
  \/ \E i \in Slots : signOutResume(i)
  \/ initializeNotifications
  \/ \E i \in Slots : requestNotificationPermission(i)
  \/ \E i \in Slots : requestPermissionResume(i)
  \/ \E j \in JobSlots : timerFires(j)
  \/ \E j \in JobSlots : jobGetPending(j)
  \/ \E j \in JobSlots : jobCancel(j)
  \/ \E j \in JobSlots : billGetPending(j)
  \/ \E j \in JobSlots : billCancel(j)
  \/ \E j \in JobSlots : billSchedule(j)
  \/ \E i \in Slots : showBillPaidNotification(i)
  \/ paidNotificationFires

SpecNative == InitNative /\ [][NextNative]_vars

\* a native runtime without a session, started at one of several times with
\* bills of an earlier use in local storage
StartTimes ==
  {Start, MkDate(2025, 1, 30, 36000), MkDate(2025, 1, 30, 66600),
   MkDate(2025, 1, 31, 28800)}

\* the clock is not followed beyond this time
Horizon == MkDate(2025, 2, 1, 43200)

StoredBills ==
  {[id |-> nowToString(1), name |-> "rent", frequency |-> "monthly",
    nextDueDate |-> MkDate(2025, 1, 30, secs), notificationTime |-> time,
    autoMarkPaid |-> FALSE, notifyUntilPaid |-> untilPaid, isPaid |-> paid] :
     secs \in {0, 32400, 82800}, time \in {<< 9, 0 >>, << 18, 30 >>},
     untilPaid \in BOOLEAN, paid \in BOOLEAN}

\* a stored bill on its own, or followed by a second, unpaid one
StoredLists ==
  {<< b >> : b \in StoredBills}
    \cup {<< b, WithId(c, nowToString(2)) >> : b \in StoredBills, c \in NewBillInputs}

InitStored(lists, times) ==
  /\ isNative = TRUE
  /\ permission = "granted"
  /\ now \in times
  /\ clock = MaxClock
  /\ session = NoUser
  /\ remoteBills = {}
  /\ remoteSettings = Absent
  /\ nextRemoteId = 1
  /\ \E bs \in lists :
       localStorage = [bills |-> Some(stringifyBills(bs)),
                       settings |-> Some(stringifySettings(DefaultSettings))]
  /\ calls = 0
  /\ pending = {}
  /\ atSignIn = NoSignIn
  /\ ReactInit

\* the clock moves on by d while the app is at rest (its awaits and the
\* 500 ms timer are over long before); the OS delivers what is due by then
timePasses(d) ==
  /\ init.pc = "done"
  /\ timer = Absent
  /\ \A i \in Slots : Free(i)
  /\ \A j \in JobSlots : jobs[j].pc = "idle"
  /\ now + d <= Horizon
  /\ now' = now + d
  /\ pending' = {n \in pending : n.at > now'}
  /\ UNCHANGED << isNative, advanced, view, filteredBills, atSignIn, clock, remoteVars, localStorage, bills,
                  settings, user, loading, isInitialized, initialSessionDue, init,
                  ops, calls, notificationsEnabled, permCheckDue, permission,
                  timer, jobs >>

\* the planner on its own: the start of the app and its first replan, for
\* every stored list and start time
InitPlanner == InitStored(StoredLists, StartTimes)

NextPlanner ==
  \/ initializeAuthSession
  \/ onAuthStateChangeInitial
  \/ initializeNotifications
  \/ \E j \in JobSlots : timerFires(j)
  \/ \E j \in JobSlots : jobGetPending(j)
  \/ \E j \in JobSlots : billGetPending(j)
  \/ \E j \in JobSlots : billSchedule(j)
  \/ \E d \in {SecPerDay} : timePasses(d)

SpecPlanner == InitPlanner /\ [][NextPlanner]_vars

\* the reminders over time: edits of the bills, the replans they start and
\* the passing of days, for the unpaid lists stored with a 09:00 due time
InitReminders ==
  InitStored({bs \in StoredLists :
                \A k \in 1..Len(bs) : /\ ~bs[k].isPaid
                                       /\ bs[k].nextDueDate % SecPerDay = 32400
                                       /\ bs[k].notificationTime = << 9, 0 >>
                                       /\ bs[k].frequency = "monthly"},
             {Start, MkDate(2025, 1, 31, 28800)})

NextReminders ==
  \/ initializeAuthSession
  \/ onAuthStateChangeInitial
  \/ initializeNotifications
  \/ \E i \in Slots, id \in BillIds, p \in UpdateInputs : updateBill(i, id, p)
  \/ \E j \in JobSlots : timerFires(j)
  \/ \E j \in JobSlots : jobGetPending(j)
  \/ \E j \in JobSlots : jobCancel(j)
  \/ \E j \in JobSlots : billGetPending(j)
  \/ \E j \in JobSlots : billCancel(j)
  \/ \E j \in JobSlots : billSchedule(j)
  \/ \E d \in {SecPerDay} : timePasses(d)

SpecReminders == InitReminders /\ [][NextReminders]_vars

\* replans one after the other: the user edits a bill only while no replan is
\* under way or due, so that every replan runs on its own
updateBillAtRest(i, id, partial) ==
  /\ timer = Absent
  /\ \A j \in JobSlots : jobs[j].pc = "idle"
  /\ updateBill(i, id, partial)

NextReplans ==
  \/ initializeAuthSession
  \/ onAuthStateChangeInitial
  \/ initializeNotifications
  \/ \E i \in Slots, id \in BillIds, p \in UpdateInputs : updateBillAtRest(i, id, p)
  \/ \E j \in JobSlots : timerFires(j)
  \/ \E j \in JobSlots : jobGetPending(j)
  \/ \E j \in JobSlots : jobCancel(j)
  \/ \E j \in JobSlots : billGetPending(j)
  \/ \E j \in JobSlots : billSchedule(j)
  \/ \E d \in {SecPerDay} : timePasses(d)

SpecReplans == InitReminders /\ [][NextReplans]_vars

\* the other bill mutations, made while no replan is under way or due
addBillAtRest(i, b) ==
  /\ timer = Absent
  /\ \A j \in JobSlots : jobs[j].pc = "idle"
  /\ addBill(i, b)

markAsPaidAtRest(i, id) ==
  /\ timer = Absent
  /\ \A j \in JobSlots : jobs[j].pc = "idle"
  /\ markAsPaid(i, id)

deleteBillAtRest(i, id) ==
  /\ timer = Absent
  /\ \A j \in JobSlots : jobs[j].pc = "idle"
  /\ deleteBill(i, id)

\* the ledger on a device whose notification plugin may fail: bill
\* mutations without a session, made one replan after the other, the replans
\* they start and the "bill paid" notification, every gateway call succeeding
\* or throwing
InitGateway ==
  InitStored({bs \in StoredLists :
                /\ Len(bs) = 1
                /\ ~bs[1].isPaid
                /\ bs[1].notifyUntilPaid
                /\ bs[1].nextDueDate % SecPerDay = 32400
                /\ bs[1].notificationTime = << 9, 0 >>},
             {Start})

NextGateway ==
  \/ initializeAuthSession
  \/ onAuthStateChangeInitial
  \/ initializeNotifications
  \/ \E i \in Slots, b \in NewBillInputs : addBillAtRest(i, b)
  \/ \E i \in Slots, id \in BillIds, p \in UpdateInputs : updateBillAtRest(i, id, p)
  \/ \E i \in Slots, id \in BillIds : markAsPaidAtRest(i, id)
  \/ \E i \in Slots, id \in BillIds : deleteBillAtRest(i, id)
  \/ \E j \in JobSlots : timerFires(j)
  \/ \E j \in JobSlots : jobGetPending(j)
  \/ \E j \in JobSlots : jobGetPendingFails(j)
  \/ \E j \in JobSlots : jobCancel(j)
  \/ \E j \in JobSlots : jobCancelFails(j)
  \/ \E j \in JobSlots : billGetPending(j)
  \/ \E j \in JobSlots : billGetPendingFails(j)
  \/ \E j \in JobSlots : billCancel(j)
  \/ \E j \in JobSlots : billCancelFails(j)
  \/ \E j \in JobSlots : billSchedule(j)
  \/ \E j \in JobSlots : billScheduleFails(j)
  \/ \E i \in Slots : showBillPaidNotification(i)
  \/ \E i \in Slots : showBillPaidNotificationFails(i)

SpecGateway == InitGateway /\ [][NextGateway]_vars

\* either runtime, with every state of the notification permission: a start
\* without a session and with one stored bill, then bill mutations, the
\* request for the permission and the replans
InitRuntimes ==
  /\ isNative \in BOOLEAN
  /\ permission \in (IF isNative THEN {"granted", "prompt", "denied"} ELSE {"denied"})
  /\ now = Start
  /\ clock = MaxClock
  /\ session = NoUser
  /\ remoteBills = {}
  /\ remoteSettings = Absent
  /\ nextRemoteId = 1
  /\ \E b \in NewBillInputs :
       localStorage = [bills |-> Some(stringifyBills(<< WithId(b, nowToString(1)) >>)),
                       settings |-> Some(stringifySettings(DefaultSettings))]
  /\ calls = 0
  /\ pending = {}
  /\ atSignIn = NoSignIn
  /\ ReactInit

NextRuntimes ==
  \/ initializeAuthSession
  \/ onAuthStateChangeInitial
  \/ initializeNotifications
  \/ \E i \in Slots, b \in NewBillInputs : addBillAtRest(i, b)
  \/ \E i \in Slots, id \in BillIds, p \in UpdateInputs : updateBillAtRest(i, id, p)
  \/ \E i \in Slots, id \in BillIds : markAsPaidAtRest(i, id)
  \/ \E i \in Slots, id \in BillIds : deleteBillAtRest(i, id)
  \/ \E i \in Slots : requestNotificationPermission(i)
  \/ \E i \in Slots : requestPermissionResume(i)
  \/ \E j \in JobSlots : timerFires(j)
  \/ \E j \in JobSlots : jobGetPending(j)
  \/ \E j \in JobSlots : jobCancel(j)
  \/ \E j \in JobSlots : billGetPending(j)
  \/ \E j \in JobSlots : billCancel(j)
  \/ \E j \in JobSlots : billSchedule(j)
  \/ \E i \in Slots : showBillPaidNotification(i)

SpecRuntimes == InitRuntimes /\ [][NextRuntimes]_vars

\* the app on the web once it has started without a session, with the bills
\* bs in local storage, when the clock reads t
Loaded(bs, t) ==
  /\ isNative = FALSE
  /\ permission = "denied"
  /\ now = t
  /\ clock = MaxClock
  /\ session = NoUser
  /\ remoteBills = {}
  /\ remoteSettings = Absent
  /\ nextRemoteId = 1
  /\ localStorage = [bills |-> Some(stringifyBills(bs)),
                     settings |-> Some(stringifySettings(DefaultSettings))]
  /\ bills = bs
  /\ settings = DefaultSettings
  /\ user = NoUser
  /\ loading = FALSE
  /\ isInitialized = TRUE
  /\ notificationsEnabled = FALSE
  /\ initialSessionDue = FALSE
  /\ permCheckDue = FALSE
  /\ init = InitDone("local")
  /\ ops = [i \in Slots |-> IdleOp]
  /\ calls = 0
  /\ timer = Absent
  /\ pending = {}
  /\ jobs = [j \in JobSlots |-> IdleJob]
  /\ atSignIn = NoSignIn

\* a bill as the form stores it
BillDue(id, frequency, due) ==
  [id |-> id, name |-> "rent", frequency |-> frequency, nextDueDate |-> due,
   notificationTime |-> << 9, 0 >>, autoMarkPaid |-> FALSE,
   notifyUntilPaid |-> TRUE, isPaid |-> FALSE]

\* due dates at the ends of short and long months, in and next to a leap
\* year, at the turn of the year and in mid-month, at several times of day
AdvanceDates ==
  {MkDate(2023, 11, 30, 0), MkDate(2023, 12, 31, 86399), MkDate(2024, 1, 31, 0),
   MkDate(2024, 2, 29, 32400), MkDate(2024, 8, 31, 0), MkDate(2025, 1, 29, 0),
   MkDate(2025, 1, 31, 32400), MkDate(2025, 2, 28, 0), MkDate(2025, 3, 31, 66600),
   MkDate(2025, 5, 15, 43200), MkDate(2025, 10, 30, 0), MkDate(2025, 12, 1, 0)}

\* getNextDueDate on its own: a caller holds the due date of a bill and
\* replaces it, time after time, by what getNextDueDate returns for it
InitAdvance ==
  /\ \E d \in AdvanceDates, f \in Frequencies :
       /\ Loaded(<< BillDue(nowToString(1), f, d) >>, Start)
       /\ advanced = d
  /\ view = "all"
  /\ filteredBills = bills

callGetNextDueDate(k) ==
  /\ calls < MaxCalls
  /\ calls' = calls + 1
  /\ advanced' = getNextDueDate(advanced, bills[k].frequency)
  /\ UNCHANGED << isNative, clock, session, remoteBills, remoteSettings,
                  nextRemoteId, localStorage, bills, settings, user, loading,
                  isInitialized, notificationsEnabled, initialSessionDue,
                  permCheckDue, init, ops, permission, timer, pending, jobs,
                  now, view, filteredBills, atSignIn >>

NextAdvance == \E k \in {1} : callGetNextDueDate(k)

SpecAdvance == InitAdvance /\ [][NextAdvance]_vars

\* the times at which the dashboard is looked at
DashboardTimes == {Start, MkDate(2025, 1, 31, 300), MkDate(2024, 2, 29, 43200)}

\* due dates around the clock reading t: in the past, earlier and later
\* today, at, just before and just after the end of each view's window, and
\* eight days ahead
DashboardDues(t) ==
  {addDays(t, 0 - 1), DayOf(t) * SecPerDay, t - 1, t, DayOf(t) * SecPerDay + 86399,
   addDays(t, 7) - 1, addDays(t, 7), addDays(t, 8), (DayOf(t) + 8) * SecPerDay,
   addDays(t, 14), addDays(t, 14) + 1, addMonths(t, 1), addMonths(t, 1) - 1,
   addYears(t, 1), addYears(t, 1) + SecPerDay}

DashboardLists(t) ==
  {<< BillDue(nowToString(1), "monthly", d) >> : d \in DashboardDues(t)}
    \cup {<< BillDue(nowToString(1), "monthly", d), BillDue(nowToString(2), "one-time", e) >> :
            d \in DashboardDues(t), e \in DashboardDues(t)}

\* the Dashboard page over a loaded ledger: its state starts with view 'all'
\* and the bills, and its effect filters the bills when the view changes
InitDashboard ==
  /\ \E t \in DashboardTimes : \E bs \in DashboardLists(t) : Loaded(bs, t)
  /\ advanced = 0
  /\ view = "all"
  /\ filteredBills = bills

\* the user selects a view: setView, then the effect on [bills, view]
setView(v) ==
  /\ view' = v
  /\ filteredBills' = filterBillsByDateRange(bills, v, now)
  /\ UNCHANGED << isNative, clock, session, remoteBills, remoteSettings,
                  nextRemoteId, localStorage, bills, settings, user, loading,
                  isInitialized, notificationsEnabled, initialSessionDue,
                  permCheckDue, init, ops, calls, permission, timer, pending,
                  jobs, now, advanced, atSignIn >>

NextDashboard == \E v \in Views : setView(v)

SpecDashboard == InitDashboard /\ [][NextDashboard]_vars

\* bills stored with the form's "Auto-mark as paid" switch on: an unpaid
\* bill on its own, or followed by a second one
AutoPaidLists ==
  {[k \in 1..Len(bs) |-> [bs[k] EXCEPT !.autoMarkPaid = TRUE]] :
     bs \in {l \in StoredLists : ~l[1].isPaid}}

\* the app left to itself with such bills: the start, the replans and the
\* passing of days beyond the due date, the user making no call
InitAutoPaid == InitStored(AutoPaidLists, StartTimes)

SpecAutoPaid == InitAutoPaid /\ [][NextPlanner]_vars /\ WF_vars(NextPlanner)

\* the ids addBill gave to two bills it created without a session, 19 and 20
\* milliseconds after 2025-01-29T14:30:00Z: "1738161000019", "1738161000020"
EarlierIds ==
  << Digits(17381610) \o << 48, 48, 48 >> \o Digits(19),
     Digits(17381610) \o << 48, 48, 48 >> \o Digits(20) >>

\* the two bills in local storage, unpaid, in the order of their creation
CollidingLists ==
  {<< WithId(b, EarlierIds[1]), WithId(c, EarlierIds[2]) >> :
     b \in {x \in StoredBills : ~x.isPaid}, c \in {x \in StoredBills : ~x.isPaid}}

\* the start of the app with these two bills and its first replan
InitCollide == InitStored(CollidingLists, {Start})

SpecCollide == InitCollide /\ [][NextPlanner]_vars

\* the start-up on its own: the app starts with or without a session, bills
\* are added (the calls, not what the database makes of them) and the user
\* signs in, which starts the app again. getSession
\* settles, the timers of loadUserData fire and loadUserData resumes when an
\* answer has come; the database need not answer.
NextStartup ==
  \/ initializeAuthSession
  \/ initializeAuthError
  \/ remoteSettingsAnswer
  \/ loadUserDataSettings
  \/ remoteBillsAnswer
  \/ loadUserDataBills
  \/ loadUserDataTimeout
  \/ onAuthStateChangeInitial
  \/ signInWithGoogleWeb
  \/ \E i \in Slots, b \in NewBillInputs : addBill(i, b)

SpecStartup ==
  /\ Init
  /\ [][NextStartup]_vars
  /\ WF_vars(initializeAuthSession \/ initializeAuthError)
  /\ WF_vars(loadUserDataSettings)
  /\ WF_vars(loadUserDataBills)
  /\ WF_vars(loadUserDataTimeout)

\* ------------------------------------------------------------------------
\* Properties
\* ------------------------------------------------------------------------
BillOf(bs, id) == CHOOSE b \in Range(bs) : b.id = id

\* call i resumes after the database's answer and settles
Resumes(i) ==
  /\ ops[i].pc \in {"ok", "err"}
  /\ ops'[i].kind = ops[i].kind
  /\ ops'[i].pc \in {"resolved", "rejected", "paidNotif"}

\* call i of the given kind is made without a user and settles in the same step
LocalCall(i, kind) ==
  /\ LowestFree(i)
  /\ calls' # calls
  /\ user = NoUser
  /\ ops'[i].kind = kind

\* the step in which markAsPaid's updateBill has gone through
MarkPaidCompletes(i) ==
  /\ ops'[i].kind = "markAsPaid"
  /\ ops'[i].pc \in {"resolved", "paidNotif"}
  /\ \/ ops[i].kind = "markAsPaid" /\ ops[i].pc = "ok"
     \/ LocalCall(i, "markAsPaid")

Quiet == \A i \in Slots : Free(i)

\* C1: when markPaid goes through on a bill whose frequency is not one-time,
\* the bill is left unpaid with its next due date advanced by one period of
\* its frequency.
C1_RecurringRollsForward ==
  [][\A i \in Slots :
       MarkPaidCompletes(i) =>
         LET id == ops'[i].id
         IN  (id \in Ids(bills) /\ id \in Ids(bills')
                /\ BillOf(bills, id).frequency # "one-time")
             => /\ ~BillOf(bills', id).isPaid
                /\ BillOf(bills', id).nextDueDate =
                     getNextDueDate(BillOf(bills, id).nextDueDate,
                                    BillOf(bills, id).frequency)]_vars

\* some call settles an updateBill on the bill id in this step
UpdateSettlesOn(id) ==
  \E i \in Slots :
    /\ ops'[i].kind = "updateBill"
    /\ ops'[i].id = id
    /\ Resumes(i) \/ LocalCall(i, "updateBill")

\* C2: markPaid on a one-time bill leaves it paid with its next due date
\* unchanged, and a paid one-time bill stays as it is in every step that is
\* not an explicit update of that bill.
C2_OneTimeTerminal ==
  [][/\ \A i \in Slots :
          MarkPaidCompletes(i) =>
            LET id == ops'[i].id
            IN  (id \in Ids(bills) /\ id \in Ids(bills')
                   /\ BillOf(bills, id).frequency = "one-time")
                => /\ BillOf(bills', id).isPaid
                   /\ BillOf(bills', id).nextDueDate = BillOf(bills, id).nextDueDate
     /\ \A b \in Range(bills) :
          (b.frequency = "one-time" /\ b.isPaid /\ b.id \in Ids(bills')
             /\ ~UpdateSettlesOn(b.id))
          => b \in Range(bills')]_vars

StripId(row) == [row EXCEPT !.id = NoId]

LocalBillsAtSignIn ==
  IF IsPresent(atSignIn.local.bills) THEN parseBills(Get(atSignIn.local.bills))
  ELSE << >>

\* the load that follows a sign-in finishes without a failure, no call having
\* been made since the sign-in
SignInCompletes ==
  /\ atSignIn.happened
  /\ init.pc # "done"
  /\ init'.pc = "done"
  /\ init'.how = "cloud"
  /\ \A i \in Slots : ops[i] = IdleOp

\* C4: when the transition from Anonymous to Authenticated completes without
\* a failure, the remote store holds the m bills it held at sign-in plus one
\* copy of each of the n local bills, and local storage holds neither blob.
C4_MigrationOnSignIn ==
  [][SignInCompletes =>
       /\ localStorage' = EmptyStorage
       /\ atSignIn.remote \subseteq remoteBills'
       /\ Cardinality(remoteBills') =
            Cardinality(atSignIn.remote) + Len(LocalBillsAtSignIn)
       /\ \A k \in 1..Len(LocalBillsAtSignIn) :
            \E r \in remoteBills' \ atSignIn.remote :
              StripId(r) = StripId(toRow(LocalBillsAtSignIn[k]))]_vars

\* C7: a load that was started before a session transition does not write
\* bills or settings once the sign-out that followed it has gone through.
C7_StaleLoadWritesNothing ==
  [][(/\ session = NoUser
      /\ init.pc \notin {"getSession", "done"}
      /\ init'.pc # init.pc)
     => bills' = bills /\ settings' = settings]_vars

\* a step of a bill mutation made with a user: the call, the database's
\* answer, or the resumption
AuthWriteStep(i) ==
  /\ ops'[i] # ops[i]
  /\ initialSessionDue' = initialSessionDue
  /\ \/ ops[i].kind \in WriteKinds /\ ops[i].pc \in {"sent", "ok", "err"}
     \/ ops'[i].kind \in WriteKinds /\ ops'[i].pc = "sent"

\* C8: with a user, create, update, delete and markPaid change the bills in
\* memory only in the step that follows the database's success; when the
\* database refuses, the bills in memory stay as they are and the call
\* rejects.
C8_RemoteBeforeMemory ==
  [][\A i \in Slots :
       AuthWriteStep(i) =>
         /\ bills' # bills => ops[i].pc = "ok" /\ ops'[i].pc = "resolved"
         /\ ops[i].pc = "err" => bills' = bills /\ ops'[i].pc = "rejected"
         /\ ops[i].pc = "ok" => ops'[i].pc = "resolved"]_vars

\* a refused write has been reported to its caller, the bills still in memory
C8_Witness ==
  \E i \in Slots :
    /\ ops[i].kind \in WriteKinds
    /\ ops[i].pc = "rejected"
    /\ user = UserId
    /\ session = UserId
    /\ Len(bills) > 0
    /\ \E j \in Slots : ops[j].kind \in WriteKinds /\ ops[j].pc = "resolved"

\* C9: when the write of updateSettings fails, the settings in memory are
\* those of before the call and the call rejects.
C9_SettingsWriteFailure ==
  [][\A i \in Slots :
       /\ (ops[i].kind = "updateSettings" /\ ops[i].pc = "err" /\ Resumes(i))
          => settings' = ops[i].settings /\ ops'[i].pc = "rejected"
       /\ (LocalCall(i, "updateSettings") /\ ops'[i].pc = "rejected")
          => settings' = settings]_vars

\* C10: bill mutations are linearizable: a mutation that settles applies its
\* change to the list as it stands then, so that of two overlapping mutations
\* both are reflected in memory as they are in the remote store.
C10_Linearizable ==
  [][\A i \in Slots :
       (/\ ops[i].kind \in {"updateBill", "markAsPaid", "deleteBill"}
        /\ ops[i].pc = "ok"
        /\ Resumes(i)
        /\ session = UserId)
       => bills' = billsAfter([ops[i] EXCEPT !.bills = bills])]_vars

\* C6: once signOut has returned and every call and replan in flight has
\* finished, no bill is in memory, the settings are the defaults, local
\* storage is empty and no reminder is pending.
C6_SignedOutIsClean ==
  (/\ session = NoUser
   /\ \E i \in Slots : ops[i].kind = "signOut" /\ ops[i].pc = "resolved"
   /\ Quiet
   /\ \A j \in JobSlots : jobs[j].pc = "idle"
   /\ ~IsPresent(timer)
   /\ init.pc = "done")
  => /\ bills = << >>
     /\ settings = DefaultSettings
     /\ localStorage = EmptyStorage
     /\ {n \in pending : n.type # "bill_paid"} = {}

\* the last run of scheduleAllBills under way returns
LastRunReturns(j) ==
  /\ jobs[j].pc # "idle"
  /\ \A k \in JobSlots : jobs'[k].pc = "idle"

\* no call, load or timer is left that would change the bills or replan
AtRest ==
  /\ timer = Absent
  /\ init.pc = "done"
  /\ \A i \in Slots : Free(i)

\* C11: when a replan was started while an earlier one's gateway calls had
\* not all landed, then once both have returned the pending reminders are
\* those planned from the latest bill list, whatever the interleaving.
C11_RacingReplansConverge ==
  [][\A j \in JobSlots :
       (LastRunReturns(j) /\ jobs[j].raced /\ AtRest' /\ Len(bills') > 0)
         => {Key(n) : n \in Reminders(pending')}
              = {Key(n) : n \in planAll(bills', now')}]_vars

JobsIdle == \A j \in JobSlots : jobs[j].pc = "idle"

\* ids of the bills the account started with and has lost to a deleteBill
DeletedIds ==
  {id \in BillIds : /\ id \notin Ids(bills)
                    /\ id \notin {r.id : r \in remoteBills}
                    /\ \E i \in Slots : ops[i].kind = "deleteBill" /\ ops[i].id = id
                                         /\ ops[i].pc = "resolved"}

\* C12: once deleteBill(id) has succeeded and no call, timer or replan is
\* left to run, nothing is pending for the deleted bill, also when it was
\* the only bill of the list.
C12_DeletedBillLeavesNothing ==
  (AtRest /\ JobsIdle /\ session = UserId /\ notificationsEnabled)
    => \A n \in pending : n.billId \notin DeletedIds

\* C13: on a native runtime with notifications enabled, markAsPaid schedules
\* one "bill paid" notification, and it stays pending until the clock
\* reaches its time: no replan cancels it, the debounced replan started by
\* the same markAsPaid included.
C13_PaidConfirmationSurvives ==
  [][/\ \A i \in Slots :
          (ops[i].pc = "paidNotif" /\ ops'[i].pc = "resolved")
            => \E n \in pending' \ pending : n.type = "bill_paid"
     /\ \A n \in pending :
          (n.type = "bill_paid" /\ n \notin pending') => now' >= n.at]_vars

\* the bill a run of scheduleAllBills is at
CurrentBill(job) == job.bills[job.idx]

\* C14: no notification is ever built for a paid bill: a run of
\* scheduleAllBills enters scheduleBillReminder for unpaid bills only, and
\* whatever a step adds to the pending reminders belongs to the unpaid bill
\* the run is at.
C14_NothingForPaidBills ==
  [][/\ \A j \in JobSlots :
          jobs'[j].pc \in {"billGetPending", "billCancel", "billSchedule"}
            => ~CurrentBill(jobs'[j]).isPaid
     /\ \A n \in Reminders(pending') \ Reminders(pending) :
          \E j \in JobSlots : /\ jobs[j].pc = "billSchedule"
                               /\ CurrentBill(jobs[j]).id = n.billId
                               /\ ~CurrentBill(jobs[j]).isPaid]_vars

\* a replan of a list with a paid and an unpaid bill has returned, with
\* reminders pending for the unpaid bill only
C14_Witness ==
  /\ JobsIdle
  /\ timer = Absent
  /\ \E k \in 1..Len(bills) : bills[k].isPaid
  /\ Reminders(pending) # {}
  /\ \A n \in Reminders(pending) : ~BillOf(bills, n.billId).isPaid

IdsOf(ns) == {n.id : n \in ns}

\* run j is on its own and found pending, when it started, exactly what a
\* run over its list leaves pending: it repeats a replan of an unchanged list
RepeatsReplan(j) ==
  /\ jobs[j].pc # "idle"
  /\ ~jobs[j].raced
  /\ jobs[j].seen # {}
  /\ jobs[j].seen = IdsOf(planAll(jobs[j].bills, now))

\* C15: a replan run right after a replan of the same, unchanged bill list
\* leaves the same set of pending ids as the first one did.
C15_ReplanIdempotent ==
  [][\A j \in JobSlots :
       (RepeatsReplan(j) /\ jobs'[j].pc = "idle") => PendingIds' = jobs[j].seen]_vars

\* the repeated replan is at its last gateway call: it has cancelled what it
\* found and is about to schedule the notifications of its last unpaid bill
C15_Witness ==
  \E j \in JobSlots :
    /\ RepeatsReplan(j)
    /\ jobs[j].pc = "billSchedule"
    /\ UnpaidAfter(jobs[j]) = {}
    /\ jobs[j].seen \ PendingIds # {}

\* run j makes the schedule call of scheduleBillReminder
SchedulesBill(j) == jobs[j].pc = "billSchedule" /\ jobs'[j].pc # "billSchedule"

\* the calendar day of the bill's nextDueDate at the bill's notificationTime
TargetOf(bill) ==
  LET c == CivilFromDays(DayOf(bill.nextDueDate))
  IN  MkDate(c.y, c.m, c.d,
             bill.notificationTime[1] * 3600 + bill.notificationTime[2] * 60)

\* the pending notifications of the bill that carry no reminder index
ZeroOf(pend, bill) ==
  {n \in pend : n.billId = bill.id /\ n.type = "main" /\ n.interval = 0}

\* C16: for an unpaid bill scheduleBillReminder schedules exactly one
\* notification with suffix 0: when the due day at the notification time is
\* after now, the main one at that time; otherwise the immediate one, a few
\* seconds after now.
C16_OneMainOrImmediate ==
  [][\A j \in JobSlots :
       SchedulesBill(j) =>
         LET bill == CurrentBill(jobs[j])
             zero == ZeroOf(pending', bill)
         IN  /\ Cardinality(zero) = 1
             /\ \A n \in zero :
                  /\ n.id = generateNotificationId(bill.id, 0)
                  /\ IF TargetOf(bill) > now
                     THEN n.at = TargetOf(bill) /\ n.body = "due"
                     ELSE /\ n.at > now
                          /\ n.at <= now + 10
                          /\ n.body \in {"OVERDUE", "due today"}]_vars

\* a replan has scheduled the immediate notification of a bill whose time has
\* passed and the main notification of a bill whose time is still to come
C16_Witness ==
  /\ JobsIdle
  /\ \E k, l \in 1..Len(bills) :
       /\ TargetOf(bills[k]) <= now
       /\ \E n \in ZeroOf(pending, bills[k]) : n.at > now /\ n.body # "due"
       /\ TargetOf(bills[l]) > now
       /\ \E n \in ZeroOf(pending, bills[l]) : n.at = TargetOf(bills[l])

\* the pending 2-hour reminders of the bill
RecurringOf(pend, bill) == {n \in pend : n.billId = bill.id /\ n.type = "recurring"}

C18_OverdueOrDueToday ==
  [][\A j \in JobSlots :
       (SchedulesBill(j) /\ TargetOf(CurrentBill(jobs[j])) <= now) =>
         \A n \in ZeroOf(pending', CurrentBill(jobs[j])) :
           /\ n.body = "OVERDUE"
                <=> DayOf(CurrentBill(jobs[j]).nextDueDate) < DayOf(now)
           /\ n.body = "due today"
                <=> DayOf(CurrentBill(jobs[j]).nextDueDate) = DayOf(now)]_vars

\* the pending notifications scheduled for the bill
NotificationsOf(pend, bill) == {n \in Reminders(pend) : n.billId = bill.id}

\* the ids a bill's notifications are to have: the sum of the character
\* codes of its id modulo 1,000,000, plus 0 for the main notification and k
\* for the k-th reminder
ExpectedIds(bill) ==
  {(SumCodes(bill.id) % 1000000) + k :
     k \in 0..(IF bill.notifyUntilPaid THEN 12 ELSE 0)}

\* C19: every notification of a bill has the id (sum of the character codes
\* of the bill id) mod 1,000,000 plus its suffix; every replan of the bill
\* derives the same set of ids, and the up to thirteen ids of one bill are
\* pairwise distinct.
C19_StableDistinctIds ==
  [][\A j \in JobSlots :
       SchedulesBill(j) =>
         LET bill == CurrentBill(jobs[j])
             mine == NotificationsOf(pending', bill)
         IN  /\ \A n \in mine : n.id = (SumCodes(bill.id) % 1000000) + n.interval
             /\ IdsOf(mine) = ExpectedIds(bill)
             /\ Cardinality({Key(n) : n \in mine}) = Cardinality(IdsOf(mine))
             /\ Cardinality(IdsOf(mine)) = IF bill.notifyUntilPaid THEN 13 ELSE 1]_vars

\* a bill whose due date was edited has been replanned: its thirteen
\* notifications, now timed by the new date, are pending under the same ids
C19_Witness ==
  /\ JobsIdle
  /\ \E k \in 1..Len(bills) :
       /\ bills[k].nextDueDate = DueC
       /\ bills[k].notifyUntilPaid
       /\ IdsOf(NotificationsOf(pending, bills[k])) = ExpectedIds(bills[k])
       /\ Cardinality(NotificationsOf(pending, bills[k])) = 13
       /\ \E n \in ZeroOf(pending, bills[k]) : n.at = TargetOf(bills[k])

\* no other bill of the list derives an id the bill derives
IdsUnshared(bill) ==
  \A k \in 1..Len(bills) :
    bills[k].id # bill.id => ExpectedIds(bills[k]) \cap ExpectedIds(bill) = {}

\* C20: as long as a bill with notifyUntilPaid is unpaid, a recurring
\* reminder with a time still to come is pending for it (stated for the times
\* at which the app is at rest with notifications enabled, and for bills
\* that share no notification id with another bill).
C20_ReminderAlwaysAhead ==
  (AtRest /\ JobsIdle /\ notificationsEnabled)
    => \A k \in 1..Len(bills) :
         (bills[k].notifyUntilPaid /\ ~bills[k].isPaid /\ IdsUnshared(bills[k]))
           => \E n \in RecurringOf(pending, bills[k]) : n.at > now

\* ids of the bills a markAsPaid call has gone through for and that are paid
\* in the list
MarkedPaidIds ==
  {id \in Ids(bills) :
     /\ BillOf(bills, id).isPaid
     /\ \E i \in Slots : /\ ops[i].kind = "markAsPaid"
                          /\ ops[i].pc = "resolved"
                          /\ ops[i].id = id}

\* C21: once markAsPaid(id) has succeeded and the replan it started has
\* returned (no call, timer or run of scheduleAllBills is left), no main,
\* immediate or recurring notification of that bill is pending.
C21_NoRemindersOncePaid ==
  (AtRest /\ JobsIdle /\ isNative /\ notificationsEnabled)
    => \A n \in Reminders(pending) : n.billId \notin MarkedPaidIds

\* the load that follows a sign-in ends in a failure: the bills select
\* answers with an error, or one of the two timeouts rejects
SignInLoadFails ==
  /\ atSignIn.happened
  /\ init.pc # "done"
  /\ init'.pc = "done"
  /\ init'.how \in {"cloudError", "timeout"}

\* C22: when the remote load fails during a sign-in transition, no locally
\* cached bill is lost: the local bills blob is as the sign-in found it and
\* the session goes on with the local bills in memory.
C22_FailedSignInKeepsLocalBills ==
  [][SignInLoadFails =>
       /\ localStorage'.bills = atSignIn.local.bills
       /\ bills' = LocalBillsAtSignIn]_vars

\* the database executes the statement of bill mutation i
RemoteWritten(i) ==
  /\ ops[i].kind \in WriteKinds
  /\ ops[i].pc = "sent"
  /\ ops'[i].pc = "ok"

\* bill mutation i is made in the local branch and succeeds
LocalWritten(i) ==
  /\ \E kind \in WriteKinds : LocalCall(i, kind)
  /\ ops'[i].pc \in {"resolved", "paidNotif"}

\* C23: a bill mutation that succeeds is written to exactly one store: to the
\* database and not to local storage when the auth client held a session as
\* the call was made, to local storage and not to the database when it held
\* none.
C23_ExactlyOneStore ==
  [][\A i \in Slots :
       /\ RemoteWritten(i) => ops[i].session = UserId /\ localStorage' = localStorage
       /\ LocalWritten(i) => /\ session = NoUser
                             /\ remoteBills' = remoteBills
                             /\ localStorage'.bills = Some(stringifyBills(bills'))]_vars

\* a run of scheduleAllBills or a showBillPaidNotification comes back from a
\* gateway call, whether the call succeeded or threw
GatewayStep ==
  \/ \E j \in JobSlots :
       /\ jobs[j].pc # "idle"
       /\ jobs'[j].pc # jobs[j].pc \/ jobs'[j].idx # jobs[j].idx
  \/ \E i \in Slots : ops[i].pc = "paidNotif" /\ ops'[i].pc # "paidNotif"

\* C24: a gateway call (getPending, cancel, schedule) of a replan or of the
\* "bill paid" notification, failed or not, makes no bill mutation fail and
\* changes neither the bill list nor a store: markAsPaid resolves also when
\* its notification could not be scheduled.
C24_GatewayFailureIsHarmless ==
  [][GatewayStep =>
       /\ bills' = bills
       /\ localStorage' = localStorage
       /\ remoteBills' = remoteBills
       /\ \A i \in Slots :
            /\ ops'[i].pc = "rejected" => ops[i].pc = "rejected"
            /\ (ops[i].pc = "paidNotif" /\ ops'[i].pc # "paidNotif")
                 => ops'[i].kind = "markAsPaid" /\ ops'[i].pc = "resolved"]_vars

\* a replan on its own is about to schedule a bill whose earlier
\* notifications are still pending: a getPending or cancel before has thrown,
\* and the bill list is the one the replan was started with, no call rejected
C24_Witness ==
  \E j \in JobSlots :
    /\ jobs[j].pc = "billSchedule"
    /\ ~jobs[j].raced
    /\ PendingIdsOf(CurrentBill(jobs[j]).id) # {}
    /\ bills = jobs[j].bills
    /\ \A i \in Slots : ops[i].pc # "rejected"
    /\ \E i \in Slots : ops[i].kind \in WriteKinds /\ ops[i].pc = "resolved"

\* the timer of the bills effect fires: the replan the bill change has led to
\* starts
EffectReplanStarts ==
  /\ IsPresent(timer)
  /\ \E j \in JobSlots : /\ jobs[j].pc = "idle"
                         /\ jobs'[j].pc # "idle"
                         /\ jobs'[j].owner = 0

\* C25: on a runtime that is not native nothing is ever scheduled or
\* cancelled: no run of scheduleAllBills is started, no timer is set and
\* nothing is pending; and the replan a change of the bills leads to is not
\* set up and does not start unless the notification permission is granted.
C25_NoGatewayOffNative ==
  [][/\ ~isNative => /\ pending' = {}
                     /\ timer' = Absent
                     /\ \A j \in JobSlots : jobs'[j].pc = "idle"
                     /\ \A i \in Slots : ops'[i].pc \notin {"paidNotif", "awaitJob"}
     /\ IsPresent(timer') => isNative /\ permission' = "granted"
     /\ EffectReplanStarts => isNative /\ permission = "granted"]_vars

\* on the web a bill has been added and another marked as paid, with no
\* replan set up and nothing pending
C25_Witness ==
  /\ ~isNative
  /\ \E i \in Slots : ops[i].kind = "markAsPaid" /\ ops[i].pc = "resolved"
  /\ MarkedPaidIds # {}
  /\ Len(bills) > 1
  /\ timer = Absent
  /\ pending = {}

\* a bill mutation changes the bill list while replans are switched on
BillsChange ==
  /\ bills' # bills
  /\ \E i \in Slots : ops'[i] # ops[i] /\ ops'[i].kind \in WriteKinds
  /\ isNative /\ notificationsEnabled /\ isInitialized

\* C26: replans are debounced: a change of the bill list starts no replan by
\* itself and drops the replan still waiting for its 500 ms, so that for a
\* burst of changes, each less than 500 ms after the one before, exactly one
\* replan is due after the last change, and when it starts it takes the list
\* the last change produced.
C26_OneReplanPerBurst ==
  [][/\ BillsChange =>
          /\ timer' = Some(bills')
          /\ \A j \in JobSlots : jobs[j].pc = "idle" => jobs'[j].pc = "idle"
     /\ EffectReplanStarts =>
          /\ timer' = Absent
          /\ \E j \in JobSlots : /\ jobs[j].pc = "idle"
                                 /\ jobs'[j].pc = "getPending"
                                 /\ jobs'[j].bills = bills
          /\ Cardinality({j \in JobSlots : jobs'[j].pc # jobs[j].pc}) = 1]_vars

\* C27: for every frequency other than one-time and every date d,
\* getNextDueDate(d, frequency) is strictly later than d.
C27_AdvanceStrictlyLater ==
  [][(calls' = calls + 1 /\ bills[1].frequency # "one-time")
       => advanced' > advanced]_vars

\* a due date at the end of January has been advanced twice by a frequency in
\* months, through the shorter February
C27_Witness ==
  /\ calls = 2
  /\ bills[1].nextDueDate = MkDate(2025, 1, 31, 32400)
  /\ bills[1].frequency = "monthly"
  /\ advanced = MkDate(2025, 3, 28, 32400)

\* C28: getNextDueDate(d, one-time) = d for every date d: applied any number
\* of times it returns d.
C28_OneTimeIsTerminal ==
  bills[1].frequency = "one-time" => advanced = bills[1].nextDueDate

\* getNextDueDate has been applied twice to the due date of a one-time bill
C28_Witness ==
  /\ calls = 2
  /\ bills[1].frequency = "one-time"
  /\ advanced = bills[1].nextDueDate

\* the bill is due earlier today: before now, on today's calendar day
DueEarlierToday(bill) ==
  bill.nextDueDate < now /\ DayOf(bill.nextDueDate) = DayOf(now)

\* the bill is due eight days from now: at the same time of day, or at any
\* time of the calendar day eight days ahead
DueInEightDays(bill) ==
  \/ bill.nextDueDate = now + 8 * 86400
  \/ DayOf(bill.nextDueDate) = DayOf(now) + 8

\* C29: in every view other than 'all' the filter keeps a bill that is due
\* earlier today, and the week view drops a bill due eight days from now.
C29_EarlierTodayKeptEightDaysDropped ==
  /\ view # "all" =>
       \A bill \in Range(bills) : DueEarlierToday(bill) => bill \in Range(filteredBills)
  /\ view = "week" =>
       \A bill \in Range(bills) : DueInEightDays(bill) => bill \notin Range(filteredBills)

\* the week view shows, of a bill due earlier today and one due in eight
\* days, the first only
C29_Witness ==
  /\ view = "week"
  /\ Len(bills) = 2
  /\ Len(filteredBills) = 1
  /\ DueEarlierToday(filteredBills[1])
  /\ \E bill \in Range(bills) : DueInEightDays(bill)

\* now plus the length of the view's window
WindowEnd(viewName) ==
  CASE viewName = "week"   -> now + 7 * 86400
    [] viewName = "14days" -> now + 14 * 86400
    [] viewName = "month"  -> addMonths(now, 1)
    [] viewName = "year"   -> addMonths(now, 12)

\* C30: in every view other than 'all' the filter keeps exactly the bills
\* whose nextDueDate is on or before now + windowLength (one due exactly at
\* now + windowLength is kept) or falls on today's calendar day, in their
\* order, and drops every other bill; view 'all' returns the list unchanged.
C30_WindowIsInclusive ==
  filteredBills =
    IF view = "all" THEN bills
    ELSE SelectSeq(bills, LAMBDA bill :
                            \/ bill.nextDueDate <= WindowEnd(view)
                            \/ DayOf(bill.nextDueDate) = DayOf(now))

\* the auth client delivers SIGNED_OUT to the callback: the step in which the
\* signOut call i comes back from supabase.auth.signOut()
SignedOutDelivered(i) ==
  /\ ops[i].kind = "signOut"
  /\ ops[i].pc = "authSignOut"
  /\ ops'[i].pc # "authSignOut"

\* C31: a session event other than INITIAL_SESSION that is delivered before
\* the initialization has completed is ignored, and one delivered after it
\* has completed is processed: the callback stores the session's user (none,
\* for SIGNED_OUT).
C31_EventsAfterInitProcessed ==
  [][\A i \in Slots :
       SignedOutDelivered(i) =>
         IF isInitialized THEN user' = NoUser ELSE user' = user]_vars

\* C32: whenever no call is in flight and the start-up is over,
\* settings.syncEnabled is true exactly when the bill mutations go to the
\* database (the user in memory is set); after a sign-out both are false.
C32_SyncFlagMatchesRouting ==
  (Quiet /\ init.pc = "done" /\ ~initialSessionDue)
    => (settings.syncEnabled <=> user # NoUser)

\* C33: at most one set of notifications is pending per bill, also while
\* runs of scheduleAllBills overlap: for every bill id at most one main (or
\* immediate) notification and at most one reminder per index 1..12, thirteen
\* at most, and no two pending notifications share an id.
C33_OneSetPerBill ==
  /\ \A n, m \in pending : n.id = m.id => n = m
  /\ \A id \in BillIds :
       LET mine == {n \in Reminders(pending) : n.billId = id}
       IN  /\ Cardinality({n \in mine : n.type = "main"}) <= 1
           /\ \A k \in 1..RemindersPerBill :
                Cardinality({n \in mine : n.type = "recurring" /\ n.interval = k}) <= 1
           /\ Cardinality(mine) <= RemindersPerBill + 1

\* a run that another run has overlapped is about to schedule a bill whose
\* thirteen notifications the other run has scheduled meanwhile, from
\* another version of the bill
C33_Witness ==
  \E j \in JobSlots :
    /\ jobs[j].pc = "billSchedule"
    /\ jobs[j].raced
    /\ Cardinality(NotificationsOf(pending, CurrentBill(jobs[j]))) = 13
    /\ planBill(CurrentBill(jobs[j]), jobs[j].now, now)
         # NotificationsOf(pending, CurrentBill(jobs[j]))

\* run j comes to the schedule call of scheduleBillReminder
ReachesSchedule(j) == jobs'[j].pc = "billSchedule" /\ jobs[j].pc # "billSchedule"

\* run j enters scheduleBillReminder for the first bill it schedules
EntersFirstBill(j) ==
  jobs'[j].pc = "billGetPending" /\ jobs[j].pc \in {"getPending", "cancel"}

AutoPaidDue(id) ==
  /\ id \in Ids(bills)
  /\ BillOf(bills, id).autoMarkPaid
  /\ ~BillOf(bills, id).isPaid
  /\ BillOf(bills, id).nextDueDate < now

\* the bill id has been dealt with: paid, rolled forward to a due date still
\* to come, or gone
AutoPaidDone(id) ==
  \/ id \notin Ids(bills)
  \/ BillOf(bills, id).isPaid
  \/ BillOf(bills, id).nextDueDate >= now

\* C35: a bill with autoMarkPaid is marked paid by the app once its due date
\* has passed, without a markAsPaid call by the user.
C35_AutoMarkedPaid ==
  \A id \in BillIds : AutoPaidDue(id) ~> AutoPaidDone(id)

\* C36: when a transition from Anonymous to Authenticated completes without
\* a failure, every bill that was in memory before the sign-in is still in
\* the bill list (under the id the store now knows it by), and the bill list
\* equals the account's bills in the database.
C36_NoBillLostAtSignIn ==
  [][SignInCompletes =>
       /\ \A k \in 1..Len(atSignIn.bills) :
            \E b \in Range(bills') : StripId(b) = StripId(atSignIn.bills[k])
       /\ {toRow(b) : b \in Range(bills')} = remoteBills'
       /\ Len(bills') = Cardinality(remoteBills')]_vars

\* run j of scheduleAllBills returns, no other run having overlapped it
ReplanCompletesAlone(j) ==
  /\ jobs[j].pc # "idle"
  /\ jobs'[j].pc = "idle"
  /\ ~jobs[j].raced
  /\ \A k \in JobSlots : k # j => jobs[k].pc = "idle"

\* C37: when a replan of a bill list has run to its end on its own, every
\* unpaid bill of the list has a pending main (or immediate) notification
\* carrying its bill id, whatever the ids of the bills are.
C37_EveryUnpaidBillHasMain ==
  [][\A j \in JobSlots :
       ReplanCompletesAlone(j) =>
         \A k \in 1..Len(jobs[j].bills) :
           ~jobs[j].bills[k].isPaid =>
             \E n \in pending' : n.type = "main" /\ n.billId = jobs[j].bills[k].id]_vars

\* C38: the bills in memory have pairwise distinct ids in every reachable
\* state, also when addBill is called twice without a session within one
\* reading of the millisecond clock.
C38_DistinctBillIds ==
  Cardinality(Ids(bills)) = Len(bills)

\* C39: after every start of the app loading becomes false and isInitialized
\* true: whether getSession succeeds or fails, and whether the selects of
\* loadUserData answer with rows, with an error, or not at all.
C39_StartupCompletes ==
  (init.pc = "getSession") ~> (~loading /\ isInitialized)

\* a start with a session has ended by a timeout of loadUserData, after a
\* sign-in
C39_Witness ==
  /\ atSignIn.happened
  /\ user = UserId
  /\ init = InitDone("timeout")
  /\ ~loading
  /\ isInitialized

\* the bill list after the step is the one before it with, at most, the
\* fields keys of the bill id changed
OnlyFieldsChanged(id, keys) ==
  /\ Len(bills') = Len(bills)
  /\ \A k \in 1..Len(bills) :
       IF bills[k].id = id
       THEN \A f \in DOMAIN bills[k] \ keys : bills'[k][f] = bills[k][f]
       ELSE bills'[k] = bills[k]

\* call i, an update of a bill (updateBill or markAsPaid's), settles
UpdateSettles(i) ==
  /\ ops'[i].kind \in {"updateBill", "markAsPaid"}
  /\ ops'[i].id \in Ids(bills)
  /\ Resumes(i) \/ LocalCall(i, ops'[i].kind)

\* call i, a deleteBill, settles
DeleteSettles(i) ==
  /\ ops'[i].kind = "deleteBill"
  /\ Resumes(i) \/ LocalCall(i, "deleteBill")

\* markAsPaid is called with an id no bill of the list has
MarkAsPaidUnknown(i) ==
  /\ LowestFree(i)
  /\ calls' # calls
  /\ ops'[i].kind = "markAsPaid"
  /\ ops'[i].id \notin Ids(bills)

\* C40: updateBill(id, partial) changes only the fields of partial in the
\* bill id, deleteBill(id) removes only that bill, and markAsPaid with an id
\* that is not in the list changes nothing and does not fail; every other
\* bill and the settings are as before.
C40_MutationsTouchOneBill ==
  [][\A i \in Slots :
       /\ UpdateSettles(i) =>
            /\ \E p \in (IF ops'[i].kind = "markAsPaid" THEN {PaidPartial} ELSE UpdateInputs) :
                 OnlyFieldsChanged(ops'[i].id, DOMAIN p)
            /\ settings' = settings
       /\ DeleteSettles(i) =>
            /\ bills' \in {bills, filterOut(bills, ops'[i].id)}
            /\ settings' = settings
       /\ MarkAsPaidUnknown(i) =>
            /\ bills' = bills
            /\ settings' = settings
            /\ localStorage' = localStorage
            /\ remoteBills' = remoteBills
            /\ ops'[i].pc = "resolved"]_vars

====
